---- MODULE Spec2Model ----
(***************************************************************************)
(* Thread core (thread.c) and inter-thread synchronisation (ipc.c) of the  *)
(* RT-Thread kernel, as a state machine.  One step of the model is one     *)
(* interrupt-disabled section of the code together with the reschedule     *)
(* request that follows it; interrupt handlers (timer expiry, time-slice   *)
(* tick) run between such steps.                                           *)
(***************************************************************************)
EXTENDS Integers, Sequences, FiniteSets, TLC

VARIABLES
    thread,                     \* struct rt_thread of every thread, plus its position (pc)
                                \* and the thread argument of the call it is inside (arg)
    rt_thread_priority_table,   \* ready table: priority -> list of READY threads
    rt_current_thread,          \* the running thread
    ipc,                        \* struct rt_ipc_object of the object under study
    corrupt,                    \* memory was overwritten through a bogus list entry
    kind,                       \* class of the object: sem, mutex, ...
    obj,                        \* life cycle of the object: live, detached, deleted
    sem,                        \* struct rt_semaphore
    mutex,                      \* struct rt_mutex
    event,                      \* struct rt_event
    mb,                         \* struct rt_mailbox
    mq,                         \* struct rt_messagequeue with its message pool
    held,                       \* history: takes that returned OK minus release calls, per thread
    broken,                     \* history: threads that were waiting when the teardown was called
    freed_access,               \* history: a field of a deleted object was read or written
    sleep_end,                  \* history: what ended the sleep a thread has not yet returned from
    irq,                        \* the interrupt mask along the call whose sections are traced
    undelivered,                \* history: the mails rt_mb_send accepted and no rt_mb_recv returned yet
    last                        \* history: the call or handler that made the last step

vars == <<thread, rt_thread_priority_table, rt_current_thread, ipc, corrupt,
          kind, obj, sem, mutex, event, mb, mq, held, broken, freed_access, sleep_end,
          irq, undelivered, last>>

----------------------------------------------------------------------------
(* Bounds of the model *)

\* rt_sem_release, rt_mutex_release and the owner's repeated rt_mutex_take are not
\* explored with value above this
MaxValue == 1
\* a blocking take is not started when value is already this far below zero
MaxSkew == 2
\* recursion depth explored for rt_mutex_take by the owner
MaxHold == 2
\* a blocking call is not started when suspend_thread_count is already this far below zero
MaxDrift == 0
\* number of bits of the event word that senders and receivers use
EventBits == 2
\* size of the mailbox, in mails
MbSize == 2
\* max_msgs of the message queue
MaxMsgs == 2
\* msg_size of the message queue, in bytes
MsgSize == 1
\* the mails and message bodies sent are 1 .. MaxMail; 0 is what the pool holds before
MaxMail == 2

----------------------------------------------------------------------------
(* Values *)

Thread == {"t1", "t2", "t3"}
IDLE == "tidle"
RT_NULL == "RT_NULL"
Priority == {1, 2, 3}

RT_THREAD_INIT == "INIT"
RT_THREAD_READY == "READY"
RT_THREAD_SUSPEND == "SUSPEND"
RT_THREAD_CLOSE == "CLOSE"

RT_EOK == "RT_EOK"
RT_ERROR == "-RT_ERROR"
RT_ETIMEOUT == "-RT_ETIMEOUT"
RT_EFULL == "-RT_EFULL"

RT_IPC_FLAG_FIFO == "FIFO"
RT_IPC_FLAG_PRIO == "PRIO"

\* an option byte is the set of the flags it has set
RT_EVENT_FLAG_AND == "AND"
RT_EVENT_FLAG_OR == "OR"
RT_EVENT_FLAG_CLEAR == "CLEAR"
EventOptions == {{RT_EVENT_FLAG_AND}, {RT_EVENT_FLAG_OR},
                 {RT_EVENT_FLAG_AND, RT_EVENT_FLAG_CLEAR},
                 {RT_EVENT_FLAG_OR, RT_EVENT_FLAG_CLEAR}}

\* a 32-bit event word is the set of the positions of its 1 bits
EventSets == SUBSET (0 .. EventBits - 1)

\* the waiting time of a blocking call: 0 polls, > 0 arms the thread timer, < 0 waits forever
Timeouts == {0, 1, -1}

\* priorities the threads are initialised with
PrioConfigs == { [t \in Thread |-> IF t = "t1" THEN 1 ELSE 2] }

Range(s) == {s[i] : i \in 1..Len(s)}
Without(s, t) == SelectSeq(s, LAMBDA x : x # t)

----------------------------------------------------------------------------
(* The kernel state a call works on, threaded through the helpers *)

K0 == [th |-> thread, rq |-> rt_thread_priority_table, cur |-> rt_current_thread,
       ipc |-> ipc, bad |-> corrupt]

Commit(K) ==
    /\ thread' = K.th
    /\ rt_thread_priority_table' = K.rq
    /\ rt_current_thread' = K.cur
    /\ ipc' = K.ipc
    /\ corrupt' = K.bad

Did(op, t, code) == [op |-> op, thread |-> t, code |-> code]

\* a receiving call, with what it stored through its out-parameter (recved of
\* rt_event_recv, buffer of rt_mq_recv; RT_NULL: nothing was stored)
DidRecv(op, t, code, recved) == [op |-> op, thread |-> t, code |-> code, recved |-> recved]

----------------------------------------------------------------------------
(* kservice.h lists, scheduler and timer: the interfaces the core uses *)

\* unlink a thread's tlist node from whatever list holds it
rt_list_remove(K, t) ==
    [K EXCEPT !.rq = [p \in Priority |-> Without(K.rq[p], t)],
              !.ipc.suspend_thread = Without(@, t)]

\* insert before the list head, that is at the tail
rt_list_insert_before(list, t) == Append(list, t)

rt_schedule_remove_thread(K, t) == rt_list_remove(K, t)

rt_schedule_insert_thread(K, t) ==
    [K EXCEPT !.th[t].stat = RT_THREAD_READY,
              !.rq[K.th[t].current_priority] = rt_list_insert_before(@, t)]

\* switch to the first thread of the highest (numerically lowest) non-empty slot
rt_schedule(K) ==
    LET ready == {p \in Priority : K.rq[p] # <<>>}
    IN  IF ready = {} THEN [K EXCEPT !.cur = IDLE]
        ELSE LET top == CHOOSE p \in ready : \A q \in ready : p <= q
             IN  [K EXCEPT !.cur = Head(K.rq[top])]

rt_timer_start(K, t) == [K EXCEPT !.th[t].timer = TRUE]
rt_timer_stop(K, t) == [K EXCEPT !.th[t].timer = FALSE]

----------------------------------------------------------------------------
(* thread.c *)

\* a suspend that does not look at the state of the thread
rt_thread_suspend_any_state(K, t) ==
    rt_schedule_remove_thread([K EXCEPT !.th[t].stat = RT_THREAD_SUSPEND], t)

\* a suspend that puts the thread back to the priority it was started with
rt_thread_suspend_resets_priority(K, t) ==
    IF K.th[t].stat # RT_THREAD_READY THEN K
    ELSE rt_schedule_remove_thread(
             [K EXCEPT !.th[t].stat = RT_THREAD_SUSPEND,
                       !.th[t].current_priority = K.th[t].init_priority], t)

rt_thread_suspend(K, t) ==
    IF K.th[t].stat # RT_THREAD_READY THEN K
    ELSE rt_schedule_remove_thread([K EXCEPT !.th[t].stat = RT_THREAD_SUSPEND], t)

\* a resume that leaves the thread's timer in the timer list
rt_thread_resume_keeps_timer(K, t) ==
    IF K.th[t].stat # RT_THREAD_SUSPEND THEN K
    ELSE rt_schedule_insert_thread(rt_list_remove(K, t), t)

rt_thread_resume(K, t) ==
    IF K.th[t].stat # RT_THREAD_SUSPEND THEN K
    ELSE rt_schedule_insert_thread(rt_timer_stop(rt_list_remove(K, t), t), t)

rt_thread_timeout(K, t) ==
    rt_schedule(rt_schedule_insert_thread(
        rt_list_remove([K EXCEPT !.th[t].error = RT_ETIMEOUT], t), t))

\* what rt_thread_suspend(t) and rt_thread_resume(t) return
rt_thread_suspend_code(K, t) ==
    IF K.th[t].stat # RT_THREAD_READY THEN RT_ERROR ELSE RT_EOK
rt_thread_resume_code(K, t) ==
    IF K.th[t].stat # RT_THREAD_SUSPEND THEN RT_ERROR ELSE RT_EOK

\* a change of priority that leaves a READY thread in the slot it is in
rt_thread_control_keeps_slot(K, t, prio) == [K EXCEPT !.th[t].current_priority = prio]

\* rt_thread_control(thread, RT_THREAD_CTRL_CHANGE_PRIORITY, &prio)
rt_thread_control(K, t, prio) ==
    IF K.th[t].stat = RT_THREAD_READY
    THEN rt_schedule_insert_thread(
             [rt_schedule_remove_thread(K, t) EXCEPT !.th[t].current_priority = prio], t)
    ELSE [K EXCEPT !.th[t].current_priority = prio]

\* a yield that puts the thread at the front of its slot
rt_thread_yield_to_front(K) ==
    LET t == K.cur
    IN  IF /\ K.th[t].stat = RT_THREAD_READY
           /\ \E p \in Priority : t \in Range(K.rq[p]) /\ Len(K.rq[p]) > 1
        THEN rt_schedule([rt_list_remove(K, t) EXCEPT
                 !.rq[K.th[t].current_priority] = <<t>> \o Without(@, t)])
        ELSE K

\* rt_thread_yield, up to its reschedule request
rt_thread_yield(K) ==
    LET t == K.cur
    IN  IF /\ K.th[t].stat = RT_THREAD_READY
           \* tlist.next # tlist.prev: the node is linked and has a peer in its list
           /\ \E p \in Priority : t \in Range(K.rq[p]) /\ Len(K.rq[p]) > 1
        THEN rt_schedule([rt_list_remove(K, t) EXCEPT
                 !.rq[K.th[t].current_priority] =
                     rt_list_insert_before(Without(@, t), t)])
        ELSE K

----------------------------------------------------------------------------
(* ipc.c: the wait queue shared by all objects *)

rt_ipc_object_init == [suspend_thread |-> <<>>, suspend_thread_count |-> 0]

rt_ipc_object_suspend(K, t) ==
    LET K1 == rt_thread_suspend(K, t)
        K2 == [K1 EXCEPT !.ipc.suspend_thread_count = @ + 1]
    IN  CASE K.ipc.flag = RT_IPC_FLAG_FIFO ->
               [K2 EXCEPT !.ipc.suspend_thread = rt_list_insert_before(@, t)]
          [] K.ipc.flag = RT_IPC_FLAG_PRIO ->
               \* the position found by the search loop is not used by the insertion
               [K2 EXCEPT !.ipc.suspend_thread = rt_list_insert_before(@, t)]

\* a wake-up that takes the thread at the tail of the list
rt_ipc_object_resume_newest(K, wild) ==
    LET n == Len(K.ipc.suspend_thread)
        K1 == IF n = 0
              THEN [K EXCEPT !.bad = @ \/ wild]
              ELSE rt_thread_resume(K, K.ipc.suspend_thread[n])
    IN  [K1 EXCEPT !.ipc.suspend_thread_count = @ - 1]

\* With an empty list the entry taken from suspend_thread.next is the list head
\* itself, read as a thread: its stat is whatever lies there.  wild = FALSE: stat
\* is not SUSPEND and rt_thread_resume returns; wild = TRUE: memory is overwritten.
rt_ipc_object_resume(K, wild) ==
    LET K1 == IF K.ipc.suspend_thread = <<>>
              THEN [K EXCEPT !.bad = @ \/ wild]
              ELSE rt_thread_resume(K, Head(K.ipc.suspend_thread))
    IN  [K1 EXCEPT !.ipc.suspend_thread_count = @ - 1]

\* one pass of the loop of rt_ipc_object_resume_all
rt_ipc_object_resume_all(K) ==
    LET t == Head(K.ipc.suspend_thread)
        K1 == rt_thread_resume([K EXCEPT !.th[t].error = RT_ERROR], t)
    IN  [K1 EXCEPT !.ipc.suspend_thread_count = @ - 1]

rt_ipc_object_decrease(K) == [K EXCEPT !.ipc.suspend_thread_count = @ - 1]

----------------------------------------------------------------------------
(* Steps common to every scenario *)

Running(t) == rt_current_thread = t /\ thread[t].pc = "run" /\ ~corrupt
Resumed(t, at) == rt_current_thread = t /\ thread[t].pc = at /\ ~corrupt

\* Between the steps no call is inside an interrupt-disabled section: interrupts
\* are enabled and no saved level is waiting to be restored
IrqIdle == [op |-> RT_NULL, flow |-> <<>>, at |-> 0, enabled |-> TRUE, saved |-> <<>>,
            entry |-> TRUE]

\* the frame of a step that does not touch the object's own fields or the history
ObjUnchanged == UNCHANGED <<kind, obj, sem, mutex, event, mb, mq>>
HistUnchanged == UNCHANGED <<held, broken, freed_access, sleep_end, irq, undelivered>>

\* the first wake-up of a thread that is suspended inside rt_thread_sleep is
\* what ends that sleep
SleepEnds(t, how) ==
    IF thread[t].pc = "rt_thread_sleep" /\ sleep_end[t] = RT_NULL
    THEN [sleep_end EXCEPT ![t] = how]
    ELSE sleep_end

\* rt_thread_sleep / rt_thread_delay: up to the reschedule request
rt_thread_sleep(self) ==
    /\ Running(self)
    /\ Commit(rt_schedule(
           [rt_timer_start(rt_thread_suspend(K0, self), self) EXCEPT !.th[self].pc = "rt_thread_sleep"]))
    /\ last' = Did("rt_thread_sleep", self, "blocked")
    /\ ObjUnchanged /\ HistUnchanged

\* rt_thread_sleep after the reschedule: return RT_EOK
rt_thread_sleep_return(self) ==
    /\ Resumed(self, "rt_thread_sleep")
    /\ Commit([K0 EXCEPT !.th[self].pc = "run"])
    /\ last' = Did("rt_thread_sleep", self, RT_EOK)
    /\ sleep_end' = [sleep_end EXCEPT ![self] = RT_NULL]
    /\ ObjUnchanged /\ UNCHANGED <<held, broken, freed_access, irq, undelivered>>

\* the tick handler finds the running thread's slice used up and calls rt_thread_yield
Tick_yield ==
    /\ ~corrupt
    /\ rt_current_thread \in Thread
    /\ rt_thread_yield(K0) # K0
    /\ Commit(rt_thread_yield(K0))
    /\ last' = Did("rt_thread_yield", rt_current_thread, RT_EOK)
    /\ ObjUnchanged /\ HistUnchanged

\* the tick handler finds the one-shot timer of t expired and calls rt_thread_timeout(t)
Timer_expire(t) ==
    /\ ~corrupt
    /\ thread[t].timer
    /\ thread[t].stat = RT_THREAD_SUSPEND
    /\ Commit(rt_thread_timeout(rt_timer_stop(K0, t), t))
    /\ last' = Did("rt_thread_timeout", t, RT_ETIMEOUT)
    /\ sleep_end' = SleepEnds(t, "timer")
    /\ ObjUnchanged /\ UNCHANGED <<held, broken, freed_access, irq, undelivered>>

----------------------------------------------------------------------------
(* thread.c: the calls a running thread makes on a thread *)

\* a call made on a thread, with the thread it was made on
DidTo(op, t, code, target) == [op |-> op, thread |-> t, code |-> code, target |-> target]

\* the object of t is still in the object container: t was neither detached nor
\* deleted, and has not exited
Valid(t) == thread[t].object \in {"static", "heap"}

\* rt_thread_startup up to its call of rt_thread_resume; interrupts are enabled
\* between the assignment of stat and that call
rt_thread_startup(self, t) ==
    /\ Running(self)
    /\ Valid(t)
    /\ thread[t].stat = RT_THREAD_INIT
    /\ Commit([K0 EXCEPT !.th[t].current_priority = K0.th[t].init_priority,
                         !.th[t].stat = RT_THREAD_SUSPEND,
                         !.th[self].pc = "rt_thread_startup",
                         !.th[self].arg = t])
    /\ last' = DidTo("rt_thread_startup", self, "entered", t)
    /\ ObjUnchanged /\ HistUnchanged

\* rt_thread_startup: rt_thread_resume(thread); return RT_EOK
rt_thread_startup_return(self) ==
    /\ Resumed(self, "rt_thread_startup")
    /\ Commit([rt_thread_resume(K0, thread[self].arg) EXCEPT
                   !.th[self].pc = "run", !.th[self].arg = RT_NULL])
    /\ last' = DidTo("rt_thread_startup", self, RT_EOK, thread[self].arg)
    /\ ObjUnchanged /\ HistUnchanged

\* rt_thread_suspend(t) called by self
rt_thread_suspend_call(self, t) ==
    /\ Running(self)
    /\ Valid(t)
    /\ Commit(rt_thread_suspend(K0, t))
    /\ last' = DidTo("rt_thread_suspend", self, rt_thread_suspend_code(K0, t), t)
    /\ ObjUnchanged /\ HistUnchanged

\* rt_thread_resume(t) called by self
rt_thread_resume_call(self, t) ==
    /\ Running(self)
    /\ Valid(t)
    /\ Commit(rt_thread_resume(K0, t))
    /\ last' = DidTo("rt_thread_resume", self, rt_thread_resume_code(K0, t), t)
    /\ sleep_end' = IF thread[t].stat = RT_THREAD_SUSPEND THEN SleepEnds(t, "resume")
                    ELSE sleep_end
    /\ ObjUnchanged /\ UNCHANGED <<held, broken, freed_access, irq, undelivered>>

\* rt_thread_control(t, RT_THREAD_CTRL_CHANGE_PRIORITY, &prio) called by self
rt_thread_control_call(self, t, prio) ==
    /\ Running(self)
    /\ Valid(t)
    /\ Commit(rt_thread_control(K0, t, prio))
    /\ last' = DidTo("rt_thread_control", self, RT_EOK, t)
    /\ ObjUnchanged /\ HistUnchanged

\* rt_thread_detach(t) called by self on a thread made by rt_thread_init
rt_thread_detach(self, t) ==
    /\ Running(self)
    /\ thread[t].object = "static"
    /\ Commit([rt_timer_stop(rt_schedule_remove_thread(K0, t), t) EXCEPT
                   !.th[t].object = "detached"])
    /\ last' = DidTo("rt_thread_detach", self, RT_EOK, t)
    /\ ObjUnchanged /\ HistUnchanged

\* rt_thread_delete(t) called by self on a thread made by rt_thread_create; the
\* node of t goes to rt_thread_defunct, which is no list of the model
rt_thread_delete(self, t) ==
    /\ Running(self)
    /\ thread[t].object = "heap"
    /\ Commit([rt_timer_stop(rt_schedule_remove_thread(K0, t), t) EXCEPT
                   !.th[t].stat = RT_THREAD_CLOSE,
                   !.th[t].object = "defunct"])
    /\ last' = DidTo("rt_thread_delete", self, RT_EOK, t)
    /\ ObjUnchanged /\ HistUnchanged

\* the entry function of self returns into rt_thread_exit
rt_thread_exit(self) ==
    /\ Running(self)
    /\ Valid(self)
    /\ Commit(rt_schedule(
           [rt_timer_stop(rt_schedule_remove_thread(K0, self), self) EXCEPT
               !.th[self].stat = RT_THREAD_CLOSE,
               !.th[self].object = IF @ = "static" THEN "detached" ELSE "defunct",
               !.th[self].pc = "rt_thread_exit"]))
    /\ last' = DidTo("rt_thread_exit", self, RT_EOK, self)
    /\ ObjUnchanged /\ HistUnchanged

----------------------------------------------------------------------------
(* ipc.c: semaphore *)

\* a take that counts itself in before it looks at the waiting time
rt_sem_take_counts_first(self, time) ==
    /\ Running(self)
    /\ kind = "sem" /\ obj = "live"
    /\ IF sem.value > 0
       THEN /\ sem' = [sem EXCEPT !.value = @ - 1]
            /\ Commit(K0)
            /\ last' = Did("rt_sem_take", self, RT_EOK)
       ELSE IF time = 0
       THEN /\ sem.value > -MaxSkew
            /\ sem' = [sem EXCEPT !.value = @ - 1]
            /\ Commit(K0)
            /\ last' = Did("rt_sem_take", self, RT_ETIMEOUT)
       ELSE /\ sem.value > -MaxSkew
            /\ ipc.suspend_thread_count >= -MaxDrift
            /\ sem' = [sem EXCEPT !.value = @ - 1]
            /\ LET K1 == [K0 EXCEPT !.th[self].error = RT_EOK]
                   K2 == rt_ipc_object_suspend(K1, self)
                   K3 == IF time > 0 THEN rt_timer_start(K2, self) ELSE K2
               IN  Commit(rt_schedule([K3 EXCEPT !.th[self].pc = "rt_sem_take"]))
            /\ last' = Did("rt_sem_take", self, "blocked")
    /\ UNCHANGED <<kind, obj, mutex, event, mb, mq>> /\ HistUnchanged

\* a take that finds the semaphore available and leaves its value as it is
rt_sem_take_keeps_value(self, time) ==
    /\ Running(self)
    /\ kind = "sem" /\ obj = "live"
    /\ IF sem.value > 0
       THEN /\ sem' = sem
            /\ Commit(K0)
            /\ last' = Did("rt_sem_take", self, RT_EOK)
       ELSE IF time = 0
       THEN /\ sem' = sem
            /\ Commit(K0)
            /\ last' = Did("rt_sem_take", self, RT_ETIMEOUT)
       ELSE /\ sem.value > -MaxSkew
            /\ ipc.suspend_thread_count >= -MaxDrift
            /\ sem' = [sem EXCEPT !.value = @ - 1]
            /\ LET K1 == [K0 EXCEPT !.th[self].error = RT_EOK]
                   K2 == rt_ipc_object_suspend(K1, self)
                   K3 == IF time > 0 THEN rt_timer_start(K2, self) ELSE K2
               IN  Commit(rt_schedule([K3 EXCEPT !.th[self].pc = "rt_sem_take"]))
            /\ last' = Did("rt_sem_take", self, "blocked")
    /\ UNCHANGED <<kind, obj, mutex, event, mb, mq>> /\ HistUnchanged

rt_sem_take(self, time) ==
    /\ Running(self)
    /\ kind = "sem" /\ obj = "live"
    /\ IF sem.value > 0
       THEN /\ sem' = [sem EXCEPT !.value = @ - 1]
            /\ Commit(K0)
            /\ last' = Did("rt_sem_take", self, RT_EOK)
       ELSE IF time = 0
       THEN /\ sem' = sem
            /\ Commit(K0)
            /\ last' = Did("rt_sem_take", self, RT_ETIMEOUT)
       ELSE /\ sem.value > -MaxSkew
            /\ ipc.suspend_thread_count >= -MaxDrift
            /\ sem' = [sem EXCEPT !.value = @ - 1]
            /\ LET K1 == [K0 EXCEPT !.th[self].error = RT_EOK]
                   K2 == rt_ipc_object_suspend(K1, self)
                   K3 == IF time > 0 THEN rt_timer_start(K2, self) ELSE K2
               IN  Commit(rt_schedule([K3 EXCEPT !.th[self].pc = "rt_sem_take"]))
            /\ last' = Did("rt_sem_take", self, "blocked")
    /\ UNCHANGED <<kind, obj, mutex, event, mb, mq>> /\ HistUnchanged

\* a return that gives back, on an error, the count taken before suspending
rt_sem_take_return_gives_back(self) ==
    /\ Resumed(self, "rt_sem_take")
    /\ IF thread[self].error # RT_EOK
       THEN /\ Commit([rt_ipc_object_decrease(K0) EXCEPT !.th[self].pc = "run"])
            /\ freed_access' = (freed_access \/ obj = "deleted")
            /\ sem' = [sem EXCEPT !.value = @ + 1]
       ELSE /\ Commit([K0 EXCEPT !.th[self].pc = "run"])
            /\ freed_access' = freed_access
            /\ sem' = sem
    /\ last' = Did("rt_sem_take_return", self, thread[self].error)
    /\ broken' = broken \ {self}
    /\ UNCHANGED <<kind, obj, mutex, event, mb, mq, held, sleep_end, irq, undelivered>>

\* rt_sem_take after the reschedule
rt_sem_take_return(self) ==
    /\ Resumed(self, "rt_sem_take")
    /\ IF thread[self].error # RT_EOK
       THEN /\ Commit([rt_ipc_object_decrease(K0) EXCEPT !.th[self].pc = "run"])
            /\ freed_access' = (freed_access \/ obj = "deleted")
       ELSE /\ Commit([K0 EXCEPT !.th[self].pc = "run"])
            /\ freed_access' = freed_access
    /\ last' = Did("rt_sem_take_return", self, thread[self].error)
    /\ broken' = broken \ {self}
    /\ ObjUnchanged /\ UNCHANGED <<held, sleep_end, irq, undelivered>>

rt_sem_release(self, wild) ==
    /\ Running(self)
    /\ kind = "sem" /\ obj = "live"
    /\ sem.value < MaxValue
    /\ sem' = [sem EXCEPT !.value = @ + 1]
    /\ IF sem.value + 1 <= 0 /\ ipc.suspend_thread_count > 0
       THEN Commit(rt_schedule(rt_ipc_object_resume(K0, wild)))
       ELSE Commit(K0)
    /\ last' = Did("rt_sem_release", self, RT_EOK)
    /\ UNCHANGED <<kind, obj, mutex, event, mb, mq>> /\ HistUnchanged

----------------------------------------------------------------------------
(* ipc.c: mutex *)

Bump(h, t) == [h EXCEPT ![t] = @ + 1]
Drop(h, t) == [h EXCEPT ![t] = IF @ > 0 THEN @ - 1 ELSE 0]

rt_mutex_take(self, time) ==
    /\ Running(self)
    /\ kind = "mutex" /\ obj = "live"
    /\ LET K1 == [K0 EXCEPT !.th[self].error = RT_EOK]
       IN  IF mutex.owner = self
           THEN /\ mutex.hold < MaxHold /\ mutex.value <= MaxValue
                /\ mutex' = [mutex EXCEPT !.hold = @ + 1]
                /\ Commit(K1)
                /\ held' = Bump(held, self)
                /\ last' = Did("rt_mutex_take", self, RT_EOK)
           ELSE IF mutex.value > 0
           THEN \* original_priority is written here and read nowhere: it is left out
                /\ mutex' = [mutex EXCEPT !.value = @ - 1, !.owner = self, !.hold = @ + 1]
                /\ Commit(K1)
                /\ held' = Bump(held, self)
                /\ last' = Did("rt_mutex_take", self, RT_EOK)
           ELSE IF time = 0
           THEN /\ mutex' = mutex
                /\ Commit([K1 EXCEPT !.th[self].error = RT_ETIMEOUT])
                /\ held' = held
                /\ last' = Did("rt_mutex_take", self, RT_ETIMEOUT)
           ELSE /\ mutex.value > -MaxSkew
                /\ ipc.suspend_thread_count >= -MaxDrift
                /\ mutex' = [mutex EXCEPT !.value = @ - 1]
                /\ LET K2 == IF K1.th[self].current_priority < K1.th[mutex.owner].current_priority
                             THEN rt_thread_control(K1, mutex.owner, K1.th[self].current_priority)
                             ELSE K1
                       K3 == rt_ipc_object_suspend(K2, self)
                       K4 == IF time > 0 THEN rt_timer_start(K3, self) ELSE K3
                   IN  Commit(rt_schedule([K4 EXCEPT !.th[self].pc = "rt_mutex_take"]))
                /\ held' = held
                /\ last' = Did("rt_mutex_take", self, "blocked")
    /\ UNCHANGED <<kind, obj, sem, event, mb, mq, broken, freed_access, sleep_end, irq, undelivered>>

\* rt_mutex_take after the reschedule
rt_mutex_take_return(self) ==
    /\ Resumed(self, "rt_mutex_take")
    /\ IF thread[self].error # RT_EOK
       THEN /\ Commit([rt_ipc_object_decrease(K0) EXCEPT !.th[self].pc = "run"])
            /\ mutex' = mutex
            /\ held' = held
       ELSE /\ Commit([K0 EXCEPT !.th[self].pc = "run", !.th[self].error = RT_EOK])
            /\ mutex' = [mutex EXCEPT !.owner = self, !.hold = @ + 1]
            /\ held' = Bump(held, self)
    /\ freed_access' = (freed_access \/ obj = "deleted")
    /\ last' = Did("rt_mutex_take_return", self, thread[self].error)
    /\ broken' = broken \ {self}
    /\ UNCHANGED <<kind, obj, sem, event, mb, mq, sleep_end, irq, undelivered>>

\* a release that takes every caller for the owner
rt_mutex_release_by_anyone(self, wild) ==
    /\ Running(self)
    /\ kind = "mutex" /\ obj = "live"
    /\ held' = Drop(held, self)
    /\ IF mutex.hold - 1 = 0
       THEN /\ LET K1 == IF thread[self].init_priority # thread[self].current_priority
                         THEN rt_thread_control(K0, self, thread[self].init_priority)
                         ELSE K0
                   K2 == IF mutex.value <= 0 /\ ipc.suspend_thread_count > 0
                         THEN rt_ipc_object_resume(K1, wild)
                         ELSE K1
               IN  Commit(rt_schedule([K2 EXCEPT !.th[self].pc = "rt_mutex_release"]))
            /\ mutex' = [mutex EXCEPT !.hold = @ - 1, !.value = @ + 1]
            /\ last' = Did("rt_mutex_release", self, "rescheduled")
       ELSE /\ Commit(K0)
            /\ mutex' = [mutex EXCEPT !.hold = @ - 1]
            /\ last' = Did("rt_mutex_release", self, RT_EOK)
    /\ UNCHANGED <<kind, obj, sem, event, mb, mq, broken, freed_access, sleep_end, irq, undelivered>>

rt_mutex_release(self, wild) ==
    /\ Running(self)
    /\ kind = "mutex" /\ obj = "live"
    /\ held' = Drop(held, self)
    /\ IF self # mutex.owner
       THEN /\ Commit([K0 EXCEPT !.th[self].error = RT_ERROR])
            /\ mutex' = mutex
            /\ last' = Did("rt_mutex_release", self, RT_ERROR)
       ELSE IF mutex.hold - 1 = 0
       THEN /\ LET K1 == IF thread[self].init_priority # thread[self].current_priority
                         THEN rt_thread_control(K0, mutex.owner, thread[self].init_priority)
                         ELSE K0
                   K2 == IF mutex.value <= 0 /\ ipc.suspend_thread_count > 0
                         THEN rt_ipc_object_resume(K1, wild)
                         ELSE K1
               IN  Commit(rt_schedule([K2 EXCEPT !.th[self].pc = "rt_mutex_release"]))
            /\ mutex' = [mutex EXCEPT !.hold = @ - 1, !.value = @ + 1]
            /\ last' = Did("rt_mutex_release", self, "rescheduled")
       ELSE /\ Commit(K0)
            /\ mutex' = [mutex EXCEPT !.hold = @ - 1]
            /\ last' = Did("rt_mutex_release", self, RT_EOK)
    /\ UNCHANGED <<kind, obj, sem, event, mb, mq, broken, freed_access, sleep_end, irq, undelivered>>

\* rt_mutex_release after the reschedule of a full release: return RT_EOK
rt_mutex_release_return(self) ==
    /\ Resumed(self, "rt_mutex_release")
    /\ Commit([K0 EXCEPT !.th[self].pc = "run"])
    /\ last' = Did("rt_mutex_release_return", self, RT_EOK)
    /\ ObjUnchanged /\ HistUnchanged

----------------------------------------------------------------------------
(* ipc.c: event *)

\* a test that takes a request for all of its bits for a request for any of them
EventStatus_any_bit(option, want, set) ==
    IF RT_EVENT_FLAG_AND \in option \/ RT_EVENT_FLAG_OR \in option
    THEN (IF set \cap want # {} THEN RT_EOK ELSE RT_ERROR)
    ELSE RT_ERROR

\* the test both rt_event_recv and the scan of rt_event_send make of a request
\* (option, want) against the event word
EventStatus(option, want, set) ==
    IF RT_EVENT_FLAG_AND \in option
    THEN (IF set \cap want = want THEN RT_EOK ELSE RT_ERROR)
    ELSE IF RT_EVENT_FLAG_OR \in option
    THEN (IF set \cap want # {} THEN RT_EOK ELSE RT_ERROR)
    ELSE RT_ERROR

\* a scan that clears the bits of every waiter it wakes, CLEAR requested or not
RECURSIVE rt_event_send_scan_clears_all(_, _, _)
rt_event_send_scan_clears_all(K, set, n) ==
    IF n = <<>> THEN [K |-> K, set |-> set]
    ELSE LET t == Head(n)
         IN  IF EventStatus(K.th[t].event_info, K.th[t].event_set, set) = RT_EOK
             THEN rt_event_send_scan_clears_all(
                      [rt_thread_resume(K, t) EXCEPT !.ipc.suspend_thread_count = @ - 1],
                      set \ K.th[t].event_set,
                      Tail(n))
             ELSE rt_event_send_scan_clears_all(K, set, Tail(n))

\* the scan of rt_event_send over the nodes n of the wait list, each one's next
\* pointer being read before the thread is resumed
RECURSIVE rt_event_send_scan(_, _, _)
rt_event_send_scan(K, set, n) ==
    IF n = <<>> THEN [K |-> K, set |-> set]
    ELSE LET t == Head(n)
         IN  IF EventStatus(K.th[t].event_info, K.th[t].event_set, set) = RT_EOK
             THEN rt_event_send_scan(
                      [rt_thread_resume(K, t) EXCEPT !.ipc.suspend_thread_count = @ - 1],
                      IF RT_EVENT_FLAG_CLEAR \in K.th[t].event_info
                      THEN set \ K.th[t].event_set ELSE set,
                      Tail(n))
             ELSE rt_event_send_scan(K, set, Tail(n))

rt_event_send(self, set) ==
    /\ Running(self)
    /\ kind = "event" /\ obj = "live"
    /\ IF set = {}
       THEN /\ event' = event
            /\ Commit(K0)
            /\ last' = Did("rt_event_send", self, RT_ERROR)
       ELSE LET R == IF ipc.suspend_thread_count > 0
                     THEN rt_event_send_scan(K0, event.set \cup set, ipc.suspend_thread)
                     ELSE [K |-> K0, set |-> event.set \cup set]
            IN  /\ event' = [event EXCEPT !.set = R.set]
                /\ Commit(rt_schedule(R.K))
                /\ last' = Did("rt_event_send", self, RT_EOK)
    /\ UNCHANGED <<kind, obj, sem, mutex, mb, mq>> /\ HistUnchanged

\* a receive that stores the event word after it has cleared the bits
rt_event_recv_stores_after_clear(self, set, option, timeout) ==
    /\ Running(self)
    /\ kind = "event" /\ obj = "live"
    /\ LET K1 == [K0 EXCEPT !.th[self].error = RT_EOK]
       IN  IF set = {}
           THEN /\ event' = event
                /\ Commit(K0)
                /\ last' = DidRecv("rt_event_recv", self, RT_ERROR, RT_NULL)
           ELSE IF EventStatus(option, set, event.set) = RT_EOK
           THEN /\ event' = [event EXCEPT !.set = IF RT_EVENT_FLAG_CLEAR \in option
                                                  THEN @ \ set ELSE @]
                /\ Commit(K1)
                /\ last' = DidRecv("rt_event_recv", self, RT_EOK, event'.set)
           ELSE IF timeout = 0
           THEN /\ event' = event
                /\ Commit([K1 EXCEPT !.th[self].error = RT_ETIMEOUT])
                /\ last' = DidRecv("rt_event_recv", self, RT_ETIMEOUT, RT_NULL)
           ELSE /\ ipc.suspend_thread_count >= -MaxDrift
                /\ event' = event
                /\ LET K2 == [K1 EXCEPT !.th[self].event_set = set,
                                        !.th[self].event_info = option]
                       K3 == rt_ipc_object_suspend(K2, self)
                       K4 == IF timeout > 0 THEN rt_timer_start(K3, self) ELSE K3
                   IN  Commit(rt_schedule([K4 EXCEPT !.th[self].pc = "rt_event_recv"]))
                /\ last' = DidRecv("rt_event_recv", self, "blocked", RT_NULL)
    /\ UNCHANGED <<kind, obj, sem, mutex, mb, mq>> /\ HistUnchanged

rt_event_recv(self, set, option, timeout) ==
    /\ Running(self)
    /\ kind = "event" /\ obj = "live"
    /\ LET K1 == [K0 EXCEPT !.th[self].error = RT_EOK]
       IN  IF set = {}
           THEN /\ event' = event
                /\ Commit(K0)
                /\ last' = DidRecv("rt_event_recv", self, RT_ERROR, RT_NULL)
           ELSE IF EventStatus(option, set, event.set) = RT_EOK
           THEN /\ event' = [event EXCEPT !.set = IF RT_EVENT_FLAG_CLEAR \in option
                                                  THEN @ \ set ELSE @]
                /\ Commit(K1)
                /\ last' = DidRecv("rt_event_recv", self, RT_EOK, event.set)
           ELSE IF timeout = 0
           THEN /\ event' = event
                /\ Commit([K1 EXCEPT !.th[self].error = RT_ETIMEOUT])
                /\ last' = DidRecv("rt_event_recv", self, RT_ETIMEOUT, RT_NULL)
           ELSE /\ ipc.suspend_thread_count >= -MaxDrift
                /\ event' = event
                /\ LET K2 == [K1 EXCEPT !.th[self].event_set = set,
                                        !.th[self].event_info = option]
                       K3 == rt_ipc_object_suspend(K2, self)
                       K4 == IF timeout > 0 THEN rt_timer_start(K3, self) ELSE K3
                   IN  Commit(rt_schedule([K4 EXCEPT !.th[self].pc = "rt_event_recv"]))
                /\ last' = DidRecv("rt_event_recv", self, "blocked", RT_NULL)
    /\ UNCHANGED <<kind, obj, sem, mutex, mb, mq>> /\ HistUnchanged

\* rt_event_recv after the reschedule.  event_set and event_info are read only
\* of threads in the wait list, which wrote them when they suspended: they are
\* cleared here, which no later step can tell.
rt_event_recv_return(self) ==
    /\ Resumed(self, "rt_event_recv")
    /\ LET K1 == [K0 EXCEPT !.th[self].pc = "run", !.th[self].event_set = {},
                            !.th[self].event_info = {}]
       IN  IF thread[self].error # RT_EOK
           THEN Commit(rt_ipc_object_decrease(K1))
           ELSE Commit(K1)
    /\ freed_access' = (freed_access \/ obj = "deleted")
    /\ last' = DidRecv("rt_event_recv_return", self, thread[self].error,
                        IF thread[self].error # RT_EOK THEN RT_NULL ELSE event.set)
    /\ broken' = broken \ {self}
    /\ ObjUnchanged /\ UNCHANGED <<held, sleep_end, irq, undelivered>>

----------------------------------------------------------------------------
(* ipc.c: mailbox *)

rt_mb_init ==
    [msg_pool |-> [i \in 0 .. MbSize - 1 |-> 0], size |-> MbSize,
     entry |-> 0, in_offset |-> 0, out_offset |-> 0]

\* a send that stores the mail even when the mailbox is full
rt_mb_send_when_full(self, value, wild) ==
    /\ Running(self)
    /\ kind = "mb" /\ obj = "live"
    /\ mb' = [mb EXCEPT !.msg_pool[mb.in_offset] = value,
                        !.in_offset = (@ + 1) % mb.size,
                        !.entry = IF @ = mb.size THEN @ ELSE @ + 1]
    /\ IF ipc.suspend_thread_count > 0
       THEN Commit(rt_schedule(rt_ipc_object_resume(K0, wild)))
       ELSE Commit(K0)
    /\ last' = Did("rt_mb_send", self, RT_EOK)
    /\ undelivered' = Append(undelivered, value)
    /\ UNCHANGED <<kind, obj, sem, mutex, event, mq, held, broken, freed_access, sleep_end, irq>>

rt_mb_send(self, value, wild) ==
    /\ Running(self)
    /\ kind = "mb" /\ obj = "live"
    /\ IF mb.entry = mb.size
       THEN /\ mb' = mb
            /\ Commit(K0)
            /\ last' = Did("rt_mb_send", self, RT_EFULL)
            /\ undelivered' = undelivered
       ELSE /\ mb' = [mb EXCEPT !.msg_pool[mb.in_offset] = value,
                                !.in_offset = (@ + 1) % mb.size,
                                !.entry = @ + 1]
            /\ IF ipc.suspend_thread_count > 0
               THEN Commit(rt_schedule(rt_ipc_object_resume(K0, wild)))
               ELSE Commit(K0)
            /\ last' = Did("rt_mb_send", self, RT_EOK)
            /\ undelivered' = Append(undelivered, value)
    /\ UNCHANGED <<kind, obj, sem, mutex, event, mq, held, broken, freed_access, sleep_end, irq>>

\* the history after a receive that returned a mail: the oldest accepted mail,
\* if there is one, counts as delivered
Delivered == IF undelivered = <<>> THEN <<>> ELSE Tail(undelivered)

\* the mail is taken out, whatever entry says
rt_mb_recv_fill(m) ==
    [m EXCEPT !.out_offset = (@ + 1) % m.size, !.entry = @ - 1]

rt_mb_recv(self, timeout) ==
    /\ Running(self)
    /\ kind = "mb" /\ obj = "live"
    /\ IF mb.entry = 0
       THEN LET K1 == [K0 EXCEPT !.th[self].error = RT_EOK]
            IN  IF timeout = 0
                THEN /\ Commit([K1 EXCEPT !.th[self].error = RT_ETIMEOUT])
                     /\ mb' = mb
                     /\ last' = Did("rt_mb_recv", self, RT_ETIMEOUT)
                     /\ undelivered' = undelivered
                ELSE /\ ipc.suspend_thread_count >= -MaxDrift
                     /\ LET K2 == rt_ipc_object_suspend(K1, self)
                            K3 == IF timeout > 0 THEN rt_timer_start(K2, self) ELSE K2
                        IN  Commit(rt_schedule([K3 EXCEPT !.th[self].pc = "rt_mb_recv"]))
                     /\ mb' = mb
                     /\ last' = Did("rt_mb_recv", self, "blocked")
                     /\ undelivered' = undelivered
       ELSE /\ mb.entry > -MaxSkew
            /\ Commit(K0)
            /\ mb' = rt_mb_recv_fill(mb)
            /\ last' = DidRecv("rt_mb_recv", self, RT_EOK, mb.msg_pool[mb.out_offset])
            /\ undelivered' = Delivered
    /\ UNCHANGED <<kind, obj, sem, mutex, event, mq, held, broken, freed_access, sleep_end, irq>>

\* rt_mb_recv after the reschedule
rt_mb_recv_return(self) ==
    /\ Resumed(self, "rt_mb_recv")
    /\ IF thread[self].error # RT_EOK
       THEN /\ Commit([rt_ipc_object_decrease(K0) EXCEPT !.th[self].pc = "run"])
            /\ mb' = mb
            /\ last' = DidRecv("rt_mb_recv_return", self, thread[self].error, RT_NULL)
            /\ undelivered' = undelivered
       ELSE /\ mb.entry > -MaxSkew
            /\ Commit([K0 EXCEPT !.th[self].pc = "run"])
            /\ mb' = rt_mb_recv_fill(mb)
            /\ last' = DidRecv("rt_mb_recv_return", self, RT_EOK, mb.msg_pool[mb.out_offset])
            /\ undelivered' = Delivered
    /\ freed_access' = (freed_access \/ obj = "deleted")
    /\ broken' = broken \ {self}
    /\ UNCHANGED <<kind, obj, sem, mutex, event, mq, held, sleep_end, irq>>

----------------------------------------------------------------------------
(* ipc.c: message queue.  The cells of the pool are 1 .. max_msgs, 0 is RT_NULL *)

\* the loop of rt_mq_init pushes cell 1, then cell 2, ... on the free list
rt_mq_init ==
    [next |-> [c \in 1 .. MaxMsgs |-> c - 1], body |-> [c \in 1 .. MaxMsgs |-> 0],
     msg_size |-> MsgSize, max_msgs |-> MaxMsgs,
     msg_queue_head |-> 0, msg_queue_tail |-> 0, msg_queue_free |-> MaxMsgs,
     entry |-> 0]

\* a put that takes a message of any size
rt_mq_put_any_size(self, op, size, q, wild) ==
    /\ Running(self)
    /\ kind = "mq" /\ obj = "live"
    /\ IF mq.msg_queue_free = 0
       THEN /\ mq' = mq
            /\ Commit(K0)
            /\ last' = Did(op, self, RT_EFULL)
       ELSE /\ mq' = [q EXCEPT !.entry = @ + 1]
            /\ IF ipc.suspend_thread_count > 0
               THEN Commit(rt_schedule(rt_ipc_object_resume(K0, wild)))
               ELSE Commit(K0)
            /\ last' = Did(op, self, RT_EOK)
    /\ UNCHANGED <<kind, obj, sem, mutex, event, mb>> /\ HistUnchanged

\* the part rt_mq_send and rt_mq_urgent share: the reply to a wrong size or a
\* full queue, or else the queue q with the message linked in, and the wake-up
rt_mq_put(self, op, size, q, wild) ==
    /\ Running(self)
    /\ kind = "mq" /\ obj = "live"
    /\ IF size > mq.msg_size
       THEN /\ mq' = mq
            /\ Commit(K0)
            /\ last' = Did(op, self, RT_ERROR)
       ELSE IF mq.msg_queue_free = 0
       THEN /\ mq' = mq
            /\ Commit(K0)
            /\ last' = Did(op, self, RT_EFULL)
       ELSE /\ mq' = [q EXCEPT !.entry = @ + 1]
            /\ IF ipc.suspend_thread_count > 0
               THEN Commit(rt_schedule(rt_ipc_object_resume(K0, wild)))
               ELSE Commit(K0)
            /\ last' = Did(op, self, RT_EOK)
    /\ UNCHANGED <<kind, obj, sem, mutex, event, mb>> /\ HistUnchanged

rt_mq_send(self, buffer, size, wild) ==
    LET msg == mq.msg_queue_free
        q1 == [mq EXCEPT !.msg_queue_free = mq.next[msg], !.body[msg] = buffer]
        q2 == IF mq.msg_queue_tail # 0
              THEN [q1 EXCEPT !.next[mq.msg_queue_tail] = msg] ELSE q1
        q3 == [q2 EXCEPT !.next[msg] = 0, !.msg_queue_tail = msg]
        q4 == IF mq.msg_queue_head = 0 THEN [q3 EXCEPT !.msg_queue_head = msg] ELSE q3
    IN  rt_mq_put(self, "rt_mq_send", size, q4, wild)

rt_mq_urgent(self, buffer, size, wild) ==
    LET msg == mq.msg_queue_free
        q1 == [mq EXCEPT !.msg_queue_free = mq.next[msg], !.body[msg] = buffer]
        q2 == [q1 EXCEPT !.next[msg] = mq.msg_queue_head, !.msg_queue_head = msg]
        q3 == IF mq.msg_queue_tail = 0 THEN [q2 EXCEPT !.msg_queue_tail = msg] ELSE q2
    IN  rt_mq_put(self, "rt_mq_urgent", size, q3, wild)

\* the dequeue of rt_mq_recv.  With msg_queue_head null the message is read and
\* written at address 0: the kernel state is overwritten (wild), or address 0
\* reads as 0 and takes the writes.
rt_mq_recv_dequeue(q) ==
    LET msg == q.msg_queue_head
    IN  IF msg = 0
        THEN [q EXCEPT !.msg_queue_free = 0, !.entry = @ - 1]
        ELSE [q EXCEPT !.msg_queue_head = q.next[msg],
                       !.msg_queue_tail = IF @ = msg THEN 0 ELSE @,
                       !.next[msg] = q.msg_queue_free,
                       !.msg_queue_free = msg,
                       !.entry = @ - 1]

\* the copy of rt_mq_recv into the caller's buffer: the body of the head message
\* (with msg_queue_head null, what lies behind address 0, read as 0)
rt_mq_recv_copy(q) == IF q.msg_queue_head = 0 THEN 0 ELSE q.body[q.msg_queue_head]

rt_mq_recv(self, timeout, wild) ==
    /\ Running(self)
    /\ kind = "mq" /\ obj = "live"
    /\ wild => mq.entry # 0 /\ mq.msg_queue_head = 0
    /\ IF mq.entry = 0
       THEN LET K1 == [K0 EXCEPT !.th[self].error = RT_EOK]
            IN  IF timeout = 0
                THEN /\ Commit([K1 EXCEPT !.th[self].error = RT_ETIMEOUT])
                     /\ mq' = mq
                     /\ last' = DidRecv("rt_mq_recv", self, RT_ETIMEOUT, RT_NULL)
                ELSE /\ ipc.suspend_thread_count >= -MaxDrift
                     /\ LET K2 == rt_ipc_object_suspend(K1, self)
                            K3 == IF timeout > 0 THEN rt_timer_start(K2, self) ELSE K2
                        IN  Commit(rt_schedule([K3 EXCEPT !.th[self].pc = "rt_mq_recv"]))
                     /\ mq' = mq
                     /\ last' = DidRecv("rt_mq_recv", self, "blocked", RT_NULL)
       ELSE /\ mq.entry > -MaxSkew
            /\ Commit([K0 EXCEPT !.bad = @ \/ wild])
            /\ mq' = rt_mq_recv_dequeue(mq)
            /\ last' = DidRecv("rt_mq_recv", self, RT_EOK, rt_mq_recv_copy(mq))
    /\ UNCHANGED <<kind, obj, sem, mutex, event, mb>> /\ HistUnchanged

\* rt_mq_recv after the reschedule
rt_mq_recv_return(self, wild) ==
    /\ Resumed(self, "rt_mq_recv")
    /\ wild => thread[self].error = RT_EOK /\ mq.msg_queue_head = 0
    /\ IF thread[self].error # RT_EOK
       THEN /\ Commit([rt_ipc_object_decrease(K0) EXCEPT !.th[self].pc = "run"])
            /\ mq' = mq
       ELSE /\ mq.entry > -MaxSkew
            /\ Commit([K0 EXCEPT !.th[self].pc = "run", !.bad = @ \/ wild])
            /\ mq' = rt_mq_recv_dequeue(mq)
    /\ freed_access' = (freed_access \/ obj = "deleted")
    /\ last' = DidRecv("rt_mq_recv_return", self, thread[self].error,
                        IF thread[self].error # RT_EOK THEN RT_NULL ELSE rt_mq_recv_copy(mq))
    /\ broken' = broken \ {self}
    /\ UNCHANGED <<kind, obj, sem, mutex, event, mb, held, sleep_end, irq, undelivered>>

----------------------------------------------------------------------------
(* ipc.c: detach and delete, the same for every class of object *)

\* rt_xx_detach (how = "detached") and rt_xx_delete (how = "deleted").  The test of
\* the while loop of rt_ipc_object_resume_all is made with interrupts enabled; a
\* step is the body of one pass (none at the call) followed by the next test.
\* While the thread's pc is how, the test has found the list non-empty and the
\* body is about to run.  A body that finds the list emptied meanwhile takes the
\* list head for a thread and writes its error field.
rt_ipc_teardown(self, how, wild) ==
    /\ rt_current_thread = self /\ ~corrupt
    /\ obj = "live"
    /\ LET K1 == IF thread[self].pc # how THEN K0
                 ELSE IF ipc.suspend_thread = <<>>
                 THEN [K0 EXCEPT !.bad = @ \/ wild, !.ipc.suspend_thread_count = @ - 1]
                 ELSE rt_ipc_object_resume_all(K0)
       IN  /\ \/ /\ thread[self].pc = "run"
                 /\ \A t \in Thread : thread[t].pc \notin {"detached", "deleted"}
                 /\ broken' = Range(ipc.suspend_thread)
                 /\ wild = FALSE
              \/ /\ thread[self].pc = how
                 /\ broken' = broken
                 /\ wild => ipc.suspend_thread = <<>>
           /\ IF K1.ipc.suspend_thread # <<>>
              THEN /\ Commit([K1 EXCEPT !.th[self].pc = how])
                   /\ obj' = obj
                   /\ last' = Did("rt_ipc_object_resume_all", self, "loop")
              ELSE \* rt_object_detach / rt_object_delete
                   /\ Commit([K1 EXCEPT !.th[self].pc = "run"])
                   /\ obj' = how
                   /\ last' = Did("teardown", self, RT_EOK)
    /\ UNCHANGED <<kind, sem, mutex, event, mb, mq, held, freed_access, sleep_end, irq, undelivered>>

----------------------------------------------------------------------------
(* The interrupt-disabled sections of the calls that request a reschedule.     *)
(* A flow is the sequence of rt_hw_interrupt_disable, rt_hw_interrupt_enable   *)
(* and rt_schedule calls one path through a function makes, the calls made by  *)
(* the helpers it invokes included.                                            *)

\* rt_thread_suspend, rt_thread_resume, rt_thread_control and
\* rt_ipc_object_decrease save the mask and restore it themselves
Nested == <<"disable", "enable">>

RECURSIVE Repeat(_, _)
Repeat(flow, n) == IF n = 0 THEN <<>> ELSE flow \o Repeat(flow, n - 1)

\* what a blocking call does once rt_schedule has returned: with an error in
\* thread->error rt_ipc_object_decrease, otherwise a second section of its own
AfterWait(error, section) == IF error THEN Nested ELSE section

rt_thread_sleep_flow == <<"disable">> \o Nested \o <<"enable", "rt_schedule">>

rt_thread_yield_flow(peer) ==
    IF peer THEN <<"disable", "enable", "rt_schedule">> ELSE <<"disable", "enable">>

rt_sem_take_flow(available, time, error) ==
    IF available \/ time = 0 THEN <<"disable", "enable">>
    ELSE <<"disable">> \o Nested \o <<"enable", "rt_schedule">> \o AfterWait(error, <<>>)

rt_sem_release_flow(waiter) ==
    IF waiter THEN <<"disable">> \o Nested \o <<"enable", "rt_schedule">>
    ELSE <<"disable", "enable">>

rt_mutex_take_flow(available, time, boost, error) ==
    IF available \/ time = 0 THEN <<"disable", "enable">>
    ELSE <<"disable">> \o (IF boost THEN Nested ELSE <<>>) \o Nested
             \o <<"enable", "rt_schedule">> \o AfterWait(error, <<"disable", "enable">>)

\* a release that requests the reschedule before it restores the mask
rt_mutex_release_flow_schedules_inside(owner, hold, restore, waiter) ==
    IF ~owner \/ hold > 0 THEN <<"disable", "enable">>
    ELSE <<"disable">> \o (IF restore THEN Nested ELSE <<>>)
             \o (IF waiter THEN Nested ELSE <<>>) \o <<"rt_schedule", "enable">>

\* hold is the count left after the decrement
rt_mutex_release_flow(owner, hold, restore, waiter) ==
    IF ~owner \/ hold > 0 THEN <<"disable", "enable">>
    ELSE <<"disable">> \o (IF restore THEN Nested ELSE <<>>)
             \o (IF waiter THEN Nested ELSE <<>>) \o <<"enable", "rt_schedule">>

\* woken is the number of threads the scan resumes
rt_fast_event_send_flow(woken) ==
    <<"disable">> \o Repeat(Nested, woken) \o <<"enable", "rt_schedule">>

rt_event_send_flow(set, woken) ==
    IF set = {} THEN <<>>
    ELSE <<"disable">> \o Repeat(Nested, woken) \o <<"enable", "rt_schedule">>

rt_event_recv_flow(set, hit, timeout, error) ==
    IF set = {} THEN <<>>
    ELSE IF hit \/ timeout = 0 THEN <<"disable", "enable">>
    ELSE <<"disable">> \o Nested \o <<"enable", "rt_schedule">>
             \o AfterWait(error, <<"disable", "enable">>)

rt_mb_send_flow(full, waiter) ==
    IF ~full /\ waiter THEN <<"disable">> \o Nested \o <<"enable", "rt_schedule">>
    ELSE <<"disable", "enable">>

rt_mb_recv_flow(empty, timeout, error) ==
    IF ~empty \/ timeout = 0 THEN <<"disable", "enable">>
    ELSE <<"disable">> \o Nested \o <<"enable", "rt_schedule">>
             \o AfterWait(error, <<"disable", "enable">>)

\* rt_mq_send and rt_mq_urgent
rt_mq_put_flow(size, full, waiter) ==
    IF size > MsgSize THEN <<>>
    ELSE IF ~full /\ waiter THEN <<"disable">> \o Nested \o <<"enable", "rt_schedule">>
    ELSE <<"disable", "enable">>

rt_mq_recv_flow(empty, timeout, error) ==
    IF ~empty \/ timeout = 0 THEN <<"disable", "enable">>
    ELSE <<"disable">> \o Nested \o <<"enable", "rt_schedule">>
             \o AfterWait(error, <<"disable", "enable">>)

\* every call with every path through it
Flows ==
    {[op |-> "rt_thread_sleep", flow |-> rt_thread_sleep_flow]}
    \cup {[op |-> "rt_thread_yield", flow |-> rt_thread_yield_flow(peer)] : peer \in BOOLEAN}
    \cup {[op |-> "rt_sem_take", flow |-> rt_sem_take_flow(a, time, e)] :
              a \in BOOLEAN, time \in Timeouts, e \in BOOLEAN}
    \cup {[op |-> "rt_sem_release", flow |-> rt_sem_release_flow(w)] : w \in BOOLEAN}
    \cup {[op |-> "rt_mutex_take", flow |-> rt_mutex_take_flow(x[1], time, x[2], x[3])] :
              x \in BOOLEAN \X BOOLEAN \X BOOLEAN, time \in Timeouts}
    \cup {[op |-> "rt_mutex_release", flow |-> rt_mutex_release_flow(x[1], h, x[2], x[3])] :
              x \in BOOLEAN \X BOOLEAN \X BOOLEAN, h \in 0 .. MaxHold}
    \cup {[op |-> "rt_fast_event_send", flow |-> rt_fast_event_send_flow(n)] :
              n \in 0 .. Cardinality(Thread)}
    \cup {[op |-> "rt_event_send", flow |-> rt_event_send_flow(set, n)] :
              set \in EventSets, n \in 0 .. Cardinality(Thread)}
    \cup {[op |-> "rt_event_recv", flow |-> rt_event_recv_flow(set, x[1], time, x[2])] :
              set \in EventSets, x \in BOOLEAN \X BOOLEAN, time \in Timeouts}
    \cup {[op |-> "rt_mb_send", flow |-> rt_mb_send_flow(f, w)] : f \in BOOLEAN, w \in BOOLEAN}
    \cup {[op |-> "rt_mb_recv", flow |-> rt_mb_recv_flow(em, time, e)] :
              em \in BOOLEAN, time \in Timeouts, e \in BOOLEAN}
    \cup {[op |-> op, flow |-> rt_mq_put_flow(size, f, w)] :
              op \in {"rt_mq_send", "rt_mq_urgent"}, size \in {MsgSize, MsgSize + 1},
              f \in BOOLEAN, w \in BOOLEAN}
    \cup {[op |-> "rt_mq_recv", flow |-> rt_mq_recv_flow(em, time, e)] :
              em \in BOOLEAN, time \in Timeouts, e \in BOOLEAN}

IrqFrame ==
    UNCHANGED <<thread, rt_thread_priority_table, rt_current_thread, ipc, corrupt,
                kind, obj, sem, mutex, event, mb, mq, held, broken, freed_access,
                sleep_end, undelivered, last>>

\* the token the traced call executes next
NextToken == IF irq.at < Len(irq.flow) THEN irq.flow[irq.at + 1] ELSE "return"

\* a call is entered, from a thread (interrupts enabled) or from a handler that
\* runs with interrupts disabled
Call_enter(c, enabled) ==
    /\ irq.op = RT_NULL
    /\ irq' = [op |-> c.op, flow |-> c.flow, at |-> 0, enabled |-> enabled,
               saved |-> <<>>, entry |-> enabled]
    /\ IrqFrame

\* level = rt_hw_interrupt_disable()
rt_hw_interrupt_disable ==
    /\ irq.op # RT_NULL /\ NextToken = "disable"
    /\ irq' = [irq EXCEPT !.at = @ + 1, !.saved = Append(@, irq.enabled),
                          !.enabled = FALSE]
    /\ IrqFrame

\* rt_hw_interrupt_enable(level), with the level saved last
rt_hw_interrupt_enable ==
    /\ irq.op # RT_NULL /\ NextToken = "enable"
    /\ irq' = [irq EXCEPT !.at = @ + 1, !.enabled = irq.saved[Len(irq.saved)],
                          !.saved = SubSeq(@, 1, Len(@) - 1)]
    /\ IrqFrame

\* rt_schedule(): the mask is the same when the call comes back
Call_rt_schedule ==
    /\ irq.op # RT_NULL /\ NextToken = "rt_schedule"
    /\ irq' = [irq EXCEPT !.at = @ + 1]
    /\ IrqFrame

Call_return ==
    /\ irq.op # RT_NULL /\ NextToken = "return"
    /\ irq' = IrqIdle
    /\ IrqFrame

----------------------------------------------------------------------------
(* Specifications *)

\* the object of class k is initialised; the threads in started have been
\* started, the others are initialised only
TypeInit(k, flags, started) ==
    /\ \E cfg \in PrioConfigs :
         /\ thread = [t \in Thread |->
                        [stat |-> IF t \in started THEN RT_THREAD_READY ELSE RT_THREAD_INIT,
                         init_priority |-> cfg[t],
                         current_priority |-> cfg[t], error |-> RT_EOK,
                         timer |-> FALSE, event_set |-> {}, event_info |-> {},
                         object |-> IF t = "t3" THEN "heap" ELSE "static",
                         pc |-> "run", arg |-> RT_NULL]]
         /\ rt_thread_priority_table =
                [p \in Priority |-> SelectSeq(<<"t1", "t2", "t3">>,
                                              LAMBDA t : t \in started /\ cfg[t] = p)]
         /\ rt_current_thread =
                Head(SelectSeq(<<"t1", "t2", "t3">>,
                               LAMBDA t : /\ t \in started
                                          /\ \A u \in started : cfg[t] <= cfg[u]))
    /\ \E f \in flags :
         ipc = [flag |-> f, suspend_thread |-> <<>>, suspend_thread_count |-> 0]
    /\ corrupt = FALSE
    /\ kind = k
    /\ obj = "live"
    /\ sem = [value |-> 0]
    /\ mutex = [value |-> 1, owner |-> RT_NULL, hold |-> 0]
    /\ event = [set |-> {}]
    /\ mb = rt_mb_init
    /\ mq = rt_mq_init
    /\ held = [t \in Thread |-> 0]
    /\ broken = {}
    /\ freed_access = FALSE
    /\ sleep_end = [t \in Thread |-> RT_NULL]
    /\ irq = IrqIdle
    /\ undelivered = <<>>
    /\ last = Did("init", RT_NULL, RT_EOK)

NextCommon ==
    \/ \E t \in Thread : rt_thread_sleep(t)
    \/ \E t \in Thread : rt_thread_sleep_return(t)
    \/ Tick_yield
    \/ \E t \in Thread : Timer_expire(t)

NextTeardown ==
    \/ \E t \in Thread, wild \in BOOLEAN : rt_ipc_teardown(t, "detached", wild)
    \/ \E t \in Thread, wild \in BOOLEAN : rt_ipc_teardown(t, "deleted", wild)

NextSemOps ==
    \/ \E t \in Thread, time \in Timeouts : rt_sem_take(t, time)
    \/ \E t \in Thread : rt_sem_take_return(t)
    \/ \E t \in Thread, wild \in BOOLEAN : rt_sem_release(t, wild)

NextMutexOps ==
    \/ \E t \in Thread, time \in Timeouts : rt_mutex_take(t, time)
    \/ \E t \in Thread : rt_mutex_take_return(t)
    \* a thread releases the mutex it owns, once for each take that returned OK
    \/ \E t \in Thread, wild \in BOOLEAN :
         /\ mutex.owner = t /\ held[t] > 0
         /\ mutex.value <= MaxValue
         /\ rt_mutex_release(t, wild)
    \/ \E t \in Thread : rt_mutex_release_return(t)

NextEventOps ==
    \/ \E t \in Thread, set \in EventSets : rt_event_send(t, set)
    \/ \E t \in Thread, set \in EventSets, option \in EventOptions, time \in Timeouts :
         rt_event_recv(t, set, option, time)
    \/ \E t \in Thread : rt_event_recv_return(t)

NextMbOps ==
    \/ \E t \in Thread, value \in 1 .. MaxMail, wild \in BOOLEAN : rt_mb_send(t, value, wild)
    \/ \E t \in Thread, time \in Timeouts : rt_mb_recv(t, time)
    \/ \E t \in Thread : rt_mb_recv_return(t)

NextMqOps ==
    \/ \E t \in Thread, buffer \in 1 .. MaxMail, size \in {MsgSize, MsgSize + 1},
          wild \in BOOLEAN : rt_mq_send(t, buffer, size, wild)
    \/ \E t \in Thread, buffer \in 1 .. MaxMail, size \in {MsgSize, MsgSize + 1},
          wild \in BOOLEAN : rt_mq_urgent(t, buffer, size, wild)
    \/ \E t \in Thread, time \in Timeouts, wild \in BOOLEAN : rt_mq_recv(t, time, wild)
    \/ \E t \in Thread, wild \in BOOLEAN : rt_mq_recv_return(t, wild)

\* three threads and a semaphore, with its detach and delete
NextSem == NextCommon \/ NextTeardown \/ NextSemOps
InitSem == TypeInit("sem", {RT_IPC_FLAG_FIFO}, Thread)
SpecSem == InitSem /\ [][NextSem]_vars

\* three threads and a mutex
NextMutex == NextCommon \/ NextMutexOps
InitMutex == TypeInit("mutex", {RT_IPC_FLAG_FIFO}, Thread)
SpecMutex == InitMutex /\ [][NextMutex]_vars

\* three threads and a mutex, with release calls by any thread, owner or not;
\* the takes poll or wait without a time limit
NextMutexAny ==
    \/ \E t \in Thread : rt_thread_sleep(t)
    \/ \E t \in Thread : rt_thread_sleep_return(t)
    \/ Tick_yield
    \/ \E t \in Thread : Timer_expire(t)
    \/ \E t \in Thread, time \in {0, -1} : rt_mutex_take(t, time)
    \/ \E t \in Thread : rt_mutex_take_return(t)
    \/ \E t \in Thread, wild \in BOOLEAN :
         /\ mutex.owner = t => held[t] > 0
         /\ mutex.value <= MaxValue
         /\ rt_mutex_release(t, wild)
    \/ \E t \in Thread : rt_mutex_release_return(t)
SpecMutexAny == InitMutex /\ [][NextMutexAny]_vars

\* three threads and a semaphore whose wait queue was created with the PRIO flag
InitSemPrio == TypeInit("sem", {RT_IPC_FLAG_PRIO}, Thread)
SpecSemPrio == InitSemPrio /\ [][NextSem]_vars

\* three threads and an event: two can wait while the third sends; the receives
\* poll or wait without a time limit
NextEvent ==
    \/ Tick_yield
    \/ \E t \in Thread, set \in EventSets : rt_event_send(t, set)
    \/ \E t \in Thread, set \in EventSets, option \in EventOptions, time \in {0, -1} :
         rt_event_recv(t, set, option, time)
    \/ \E t \in Thread : rt_event_recv_return(t)
InitEvent == TypeInit("event", {RT_IPC_FLAG_FIFO}, Thread)
SpecEvent == InitEvent /\ [][NextEvent]_vars

\* two threads of equal priority and one object of any class, with its detach and
\* delete
Kinds == {"sem", "mutex", "event", "mb", "mq"}
NextPair ==
    \/ NextCommon \/ NextTeardown
    \/ NextSemOps \/ NextMutexOps \/ NextEventOps \/ NextMbOps \/ NextMqOps
InitPair == \E k \in Kinds : TypeInit(k, {RT_IPC_FLAG_FIFO}, {"t2", "t3"})
SpecPair == InitPair /\ [][NextPair]_vars

\* three threads, the first started and the others initialised, and the calls of
\* thread.c on them; no object is waited for
\* the priorities rt_thread_control is called with
NewPriority == {1}
NextThread ==
    \/ \E t \in Thread : rt_thread_sleep(t)
    \/ \E t \in Thread : rt_thread_sleep_return(t)
    \/ Tick_yield
    \/ \E t \in Thread : Timer_expire(t)
    \/ \E self, t \in Thread : rt_thread_startup(self, t)
    \/ \E self \in Thread : rt_thread_startup_return(self)
    \/ \E self, t \in Thread : rt_thread_suspend_call(self, t)
    \/ \E self, t \in Thread : rt_thread_resume_call(self, t)
    \/ \E self, t \in Thread, prio \in NewPriority : rt_thread_control_call(self, t, prio)
    \/ \E self, t \in Thread : rt_thread_detach(self, t)
    \/ \E self, t \in Thread : rt_thread_delete(self, t)
    \/ \E self \in Thread : rt_thread_exit(self)
InitThread == TypeInit("thread", {RT_IPC_FLAG_FIFO}, {"t1"})
SpecThread == InitThread /\ [][NextThread]_vars

\* one call at a time, walked along one of its paths
NextIrq ==
    \/ \E c \in Flows, enabled \in BOOLEAN : Call_enter(c, enabled)
    \/ rt_hw_interrupt_disable
    \/ rt_hw_interrupt_enable
    \/ Call_rt_schedule
    \/ Call_return
InitIrq == TypeInit("sem", {RT_IPC_FLAG_FIFO}, Thread)
SpecIrq == InitIrq /\ [][NextIrq]_vars

----------------------------------------------------------------------------
(* Properties of the mutex *)

Waiters == Range(ipc.suspend_thread)
InCall(t, at) == thread[t].pc = at

\* C1: at any time at most one thread holds the mutex, a thread holding it from
\* a take that returned OK until it has made as many release calls.
C1_AtMostOneHolder == Cardinality({t \in Thread : held[t] > 0}) <= 1

\* C7: while the mutex is held (hold > 0) and threads wait for it, the owner's
\* current_priority is numerically at most that of every waiting thread.
C7_OwnerOutranksWaiters ==
    (mutex.hold > 0 /\ Waiters # {}) =>
        \A w \in Waiters :
            thread[mutex.owner].current_priority <= thread[w].current_priority

\* C8: when the owner's release has brought hold to 0, the releasing thread is
\* at its init_priority when the call returns, boosted or not; a release that
\* leaves hold > 0 does not change the owner's priority.
C8_ReleaseRestoresPriority ==
    [][ /\ last'.op = "rt_mutex_release_return" =>
              thread'[last'.thread].current_priority = thread'[last'.thread].init_priority
        /\ (last'.op = "rt_mutex_release" /\ last'.code = RT_EOK) =>
              thread'[last'.thread].current_priority = thread[last'.thread].current_priority
      ]_vars

\* C9: when a blocked rt_mutex_take woken by the owner's full release returns
\* OK, the mutex's owner is the returning thread and hold is 1.
C9_WokenTakerOwnsOnce ==
    [][ (last'.op = "rt_mutex_take_return" /\ last'.code = RT_EOK) =>
            (mutex'.owner = last'.thread /\ mutex'.hold = 1) ]_vars

\* the mutex is free and no thread is inside a call on it
MutexFree ==
    /\ mutex.value = 1 /\ mutex.hold = 0
    /\ ipc.suspend_thread = <<>> /\ ipc.suspend_thread_count = 0
    /\ \A t \in Thread : held[t] = 0 /\ ~InCall(t, "rt_mutex_take")

\* C10: takes and releases by one thread alone on a free mutex all return OK,
\* the first take leaves value 0, hold 1 and the thread as owner, every further
\* take and release moves hold by one and keeps value 0 and the owner, and the
\* release that brings hold to 0 brings value back to 1.
C10_RecursiveRoundTrip ==
    [][ /\ (last'.op = "rt_mutex_take" /\ MutexFree) =>
              /\ last'.code = RT_EOK
              /\ mutex' = [value |-> 0, owner |-> last'.thread, hold |-> 1]
        /\ (/\ last'.op = "rt_mutex_release" /\ last'.code # RT_ERROR
            /\ mutex = [value |-> 0, owner |-> last'.thread, hold |-> held[last'.thread]]
            /\ \A t \in Thread \ {last'.thread} : held[t] = 0 /\ ~InCall(t, "rt_mutex_take")) =>
              /\ mutex'.hold = mutex.hold - 1
              /\ mutex'.value = (IF mutex'.hold = 0 THEN 1 ELSE 0) ]_vars

\* C11: rt_mutex_release called by a thread that is not the owner returns ERROR
\* and leaves the mutex's value, owner and hold, the wait list and
\* suspend_thread_count, and every thread's priority and state unchanged.
C11_ForeignReleaseRefused ==
    [][ (last'.op = "rt_mutex_release" /\ mutex.owner # last'.thread) =>
            /\ last'.code = RT_ERROR
            /\ UNCHANGED <<mutex, ipc, rt_thread_priority_table, rt_current_thread>>
            /\ \A t \in Thread :
                 /\ thread'[t].stat = thread[t].stat
                 /\ thread'[t].current_priority = thread[t].current_priority ]_vars

\* a release was refused while another thread held the mutex, boosted by a waiter
C11_Witness ==
    /\ last.op = "rt_mutex_release" /\ last.code = RT_ERROR
    /\ mutex.hold > 0 /\ mutex.owner # last.thread
    /\ ipc.suspend_thread # <<>>

\* C12: the mutex's value is 0 or 1 in every reachable state.
C12_ValueIsBinary == mutex.value \in {0, 1}

----------------------------------------------------------------------------
(* Properties of the wait queue, on a semaphore *)

\* C2: a rt_sem_release that finds value <= 0 after the increment and
\* suspend_thread_count > 0 makes exactly the head of the wait list READY and
\* changes the state of no other thread.
C2_ReleaseWakesHead ==
    [][ (/\ last'.op = "rt_sem_release"
         /\ sem.value + 1 <= 0 /\ ipc.suspend_thread_count > 0) =>
            /\ ipc.suspend_thread # <<>>
            /\ ~corrupt'
            /\ \A t \in Thread :
                 IF t = Head(ipc.suspend_thread)
                 THEN thread[t].stat = RT_THREAD_SUSPEND /\ thread'[t].stat = RT_THREAD_READY
                 ELSE thread'[t].stat = thread[t].stat ]_vars

\* C3: suspend_thread_count equals the number of threads linked in the suspend
\* list, and every thread linked there is in state SUSPEND.
C3_CountMatchesList ==
    /\ ipc.suspend_thread_count = Len(ipc.suspend_thread)
    /\ \A t \in Waiters : thread[t].stat = RT_THREAD_SUSPEND

\* C4: every thread that was waiting on the object when its detach or delete
\* was called returns ERROR from its blocked call, and the wait list is empty
\* when the teardown returns.
C4_TeardownBreaksWaiters ==
    [][ /\ (last'.op = "rt_sem_take_return" /\ last'.thread \in broken) =>
              last'.code = RT_ERROR
        /\ last'.op = "teardown" => ipc'.suspend_thread = <<>> ]_vars

\* C5: a timed rt_sem_take that ends with TIMEOUT has, once it has returned,
\* left the wait list, and suspend_thread_count is 0 when no other thread is
\* waiting.
C5_TimeoutLeavesQueueClean ==
    [][ (/\ last'.op = "rt_sem_take_return" /\ last'.code = RT_ETIMEOUT
         /\ obj' = "live"
         /\ \A t \in Thread \ {last'.thread} : ~InCall(t, "rt_sem_take")) =>
            /\ last'.thread \notin Range(ipc'.suspend_thread)
            /\ ipc'.suspend_thread_count = 0 ]_vars

\* the threads that enter and that leave the wait list in a step
Entered == Range(ipc'.suspend_thread) \ Waiters
Left == Waiters \ Range(ipc'.suspend_thread)

\* C15: in a FIFO wait queue a thread that suspends is linked at the tail, the
\* threads that stay keep their order whoever leaves (woken or timed out), and
\* a single wake-up wakes the head of the list and no other thread: threads
\* are woken in the order in which they were enqueued.
C15_FifoWakeOrder ==
    [][ ipc.flag = RT_IPC_FLAG_FIFO =>
          /\ Cardinality(Entered) <= 1
          /\ ipc'.suspend_thread =
                 SelectSeq(ipc.suspend_thread, LAMBDA x : x \notin Left)
                     \o (IF Entered = {} THEN <<>> ELSE <<CHOOSE x \in Entered : TRUE>>)
          /\ (/\ last'.op \in {"rt_sem_release", "rt_mutex_release", "rt_mb_send",
                             "rt_mq_send", "rt_mq_urgent"}
              /\ ipc.suspend_thread # <<>>) =>
                 /\ Left \subseteq {Head(ipc.suspend_thread)}
                 /\ \A t \in Thread :
                      (thread[t].stat = RT_THREAD_SUSPEND /\ thread'[t].stat = RT_THREAD_READY)
                          => t = Head(ipc.suspend_thread) ]_vars

\* a release has woken the first of two waiters and left the second in the list
C15_Witness ==
    /\ last.op = "rt_sem_release"
    /\ Len(ipc.suspend_thread) = 1
    /\ \E t \in Thread \ Waiters :
         /\ thread[t].pc = "rt_sem_take" /\ thread[t].stat = RT_THREAD_READY
         /\ thread[t].error = RT_EOK

\* the list with t linked before the first entry of numerically greater priority
RECURSIVE PrioInsert(_, _)
PrioInsert(list, t) ==
    IF list = <<>> THEN <<t>>
    ELSE IF thread[t].current_priority < thread[Head(list)].current_priority
    THEN <<t>> \o list
    ELSE <<Head(list)>> \o PrioInsert(Tail(list), t)

\* C16: in a PRIO wait queue a thread that suspends is linked immediately before
\* the first queued thread whose current_priority is numerically greater than
\* its own, at the tail if there is none.
C16_PrioInsertPosition ==
    [][ (ipc.flag = RT_IPC_FLAG_PRIO /\ Entered # {}) =>
            \E t \in Entered : ipc'.suspend_thread = PrioInsert(ipc.suspend_thread, t) ]_vars

----------------------------------------------------------------------------
(* Properties of the semaphore's counter *)

\* C13: a rt_sem_take that returns OK without waiting, followed at once by
\* rt_sem_release by the same thread, leaves value, the wait list and
\* suspend_thread_count as they were before the take: the take lowers value by
\* one and touches nothing else, the release that follows raises it by one,
\* wakes no thread and touches nothing else.
C13_TakeReleaseRoundTrip ==
    [][ /\ (last'.op = "rt_sem_take" /\ last'.code = RT_EOK) =>
              /\ sem'.value = sem.value - 1
              /\ ipc' = ipc
        /\ (/\ last.op = "rt_sem_take" /\ last.code = RT_EOK
            /\ last'.op = "rt_sem_release" /\ last'.thread = last.thread) =>
              /\ sem'.value = sem.value + 1
              /\ ipc' = ipc
              /\ \A t \in Thread : thread'[t].stat = thread[t].stat ]_vars

\* a take has just returned OK and its caller can release at once
C13_Witness ==
    /\ last.op = "rt_sem_take" /\ last.code = RT_EOK
    /\ ENABLED rt_sem_release(last.thread, FALSE)

\* C14: a blocking rt_sem_take that ends with TIMEOUT leaves value one lower
\* than the call found it: the call lowers value by one before it suspends,
\* neither the expiry of the timer nor the return gives it back, and value rises
\* only in rt_sem_release.
C14_TimeoutKeepsDecrement ==
    [][ /\ (last'.op = "rt_sem_take" /\ last'.code = "blocked") =>
              sem'.value = sem.value - 1
        /\ last'.op \in {"rt_thread_timeout", "rt_sem_take_return"} => sem' = sem
        /\ sem'.value > sem.value => last'.op = "rt_sem_release" ]_vars

\* a take has returned TIMEOUT and value is still below zero
C14_Witness ==
    /\ last.op = "rt_sem_take_return" /\ last.code = RT_ETIMEOUT
    /\ sem.value < 0

----------------------------------------------------------------------------
(* Properties of the event *)

\* a request (info, want) is met by the event word set: all the wanted bits are
\* there (AND), or one of them at least (OR)
Satisfied(info, want, set) ==
    IF RT_EVENT_FLAG_AND \in info THEN want \subseteq set
    ELSE RT_EVENT_FLAG_OR \in info /\ want \cap set # {}

\* the waiters a step makes READY
Woken == {w \in Waiters : thread'[w].stat = RT_THREAD_READY}

\* the bits cleared on behalf of the woken waiters that stand before position i
\* of the wait list and asked for CLEAR
ClearedBefore(i) ==
    UNION {thread[ipc.suspend_thread[j]].event_set :
             j \in {k \in 1 .. i - 1 :
                      /\ ipc.suspend_thread[k] \in Woken
                      /\ RT_EVENT_FLAG_CLEAR \in thread[ipc.suspend_thread[k]].event_info}}

C18_SendClearsForWoken ==
    [][ last'.op = "rt_event_send" =>
          \A set \in EventSets \ {{}} :
            rt_event_send(last'.thread, set) =>
              event'.set = (event.set \cup set) \ ClearedBefore(Len(ipc.suspend_thread) + 1) ]_vars

\* a send has woken a waiter that asked for CLEAR and one that did not, and
\* bits are left in the event word
C18_Witness ==
    /\ last.op = "rt_event_send" /\ last.code = RT_EOK
    /\ event.set # {}
    /\ \E t, u \in Thread :
         /\ \A w \in {t, u} :
              /\ thread[w].pc = "rt_event_recv" /\ thread[w].stat = RT_THREAD_READY
              /\ thread[w].error = RT_EOK
         /\ RT_EVENT_FLAG_CLEAR \in thread[t].event_info
         /\ thread[u].event_info # {} /\ RT_EVENT_FLAG_CLEAR \notin thread[u].event_info

\* C19: rt_event_recv whose request is met on entry returns OK without
\* suspending the caller, stores in recved the event word as it was before any
\* clearing, and removes from the event word exactly the requested bits when
\* CLEAR is requested, none otherwise.
C19_RecvHitReturnsAtOnce ==
    [][ last'.op = "rt_event_recv" =>
          \A set \in EventSets \ {{}}, option \in EventOptions, timeout \in Timeouts :
            (Satisfied(option, set, event.set)
                 /\ rt_event_recv(last'.thread, set, option, timeout)) =>
              /\ last'.code = RT_EOK
              /\ last'.recved = event.set
              /\ event'.set = (IF RT_EVENT_FLAG_CLEAR \in option
                               THEN event.set \ set ELSE event.set)
              /\ thread'[last'.thread].stat = RT_THREAD_READY
              /\ thread'[last'.thread].pc = "run"
              /\ ipc' = ipc ]_vars

\* a receive has returned OK at once and has cleared bits that it stored in recved
C19_Witness ==
    /\ last.op = "rt_event_recv" /\ last.code = RT_EOK
    /\ last.recved # event.set
    /\ event.set # {}

----------------------------------------------------------------------------
(* Properties of the mailbox *)

\* C20: in every reachable state of a mailbox 0 <= entry <= size, and in_offset
\* and out_offset lie in 0 .. size - 1.
C20_MailboxBounds ==
    kind = "mb" =>
        /\ 0 <= mb.entry /\ mb.entry <= mb.size
        /\ mb.in_offset \in 0 .. mb.size - 1
        /\ mb.out_offset \in 0 .. mb.size - 1

\* C21: rt_mb_send on a mailbox with entry = size returns FULL at once and
\* leaves the pool, in_offset, out_offset, entry and the wait list unchanged; a
\* send that follows a successful receive succeeds.
C21_SendOnFullRefused ==
    [][ last'.op = "rt_mb_send" =>
          /\ mb.entry = mb.size =>
               /\ last'.code = RT_EFULL
               /\ UNCHANGED <<mb, ipc, thread, rt_current_thread, rt_thread_priority_table>>
          /\ (last.op \in {"rt_mb_recv", "rt_mb_recv_return"} /\ last.code = RT_EOK) =>
               /\ last'.code = RT_EOK
               /\ mb'.entry = mb.entry + 1 ]_vars

\* a send has been refused by a mailbox that holds size mails
C21_Witness ==
    /\ last.op = "rt_mb_send" /\ last.code = RT_EFULL
    /\ mb.entry = mb.size
    /\ \A i \in 0 .. mb.size - 1 : mb.msg_pool[i] # 0

----------------------------------------------------------------------------
(* Properties of the message queue *)

\* the cells reached from cell c along the next pointers, at most n of them
RECURSIVE Chain(_, _, _)
Chain(next, c, n) ==
    IF c = 0 \/ n = 0 THEN <<>> ELSE <<c>> \o Chain(next, next[c], n - 1)

FreeList == Chain(mq.next, mq.msg_queue_free, mq.max_msgs + 1)
LiveList == Chain(mq.next, mq.msg_queue_head, mq.max_msgs + 1)

\* C22: in every reachable state of a message queue each of the max_msgs cells
\* is on exactly one of the free list and the live message list, and entry plus
\* the length of the free list equals max_msgs.
C22_CellsAccounted ==
    kind = "mq" =>
        /\ Range(FreeList) \cup Range(LiveList) = 1 .. mq.max_msgs
        /\ Len(FreeList) + Len(LiveList) = mq.max_msgs
        /\ mq.entry + Len(FreeList) = mq.max_msgs

\* the messages of the live list, head first
LiveBodies == [i \in 1 .. Len(LiveList) |-> mq.body[LiveList[i]]]

\* head and tail are both null when the live list is empty, and its first and
\* last cell otherwise
HeadTailConsistent ==
    IF LiveList = <<>>
    THEN mq.msg_queue_head = 0 /\ mq.msg_queue_tail = 0
    ELSE /\ mq.msg_queue_head = LiveList[1]
         /\ mq.msg_queue_tail = LiveList[Len(LiveList)]

\* C23: a successful rt_mq_send appends its message at the tail of the live
\* list, a successful rt_mq_urgent puts it at the head, a rt_mq_recv that
\* returns OK hands out the message at the head and removes it, and head and
\* tail stay consistent with the list.
C23_QueueOrder ==
    [][ kind = "mq" =>
          /\ (last'.op = "rt_mq_send" /\ last'.code = RT_EOK) =>
               \A buffer \in 1 .. MaxMail, wild \in BOOLEAN :
                   rt_mq_send(last'.thread, buffer, MsgSize, wild) =>
                       LiveBodies' = Append(LiveBodies, buffer)
          /\ (last'.op = "rt_mq_urgent" /\ last'.code = RT_EOK) =>
               \A buffer \in 1 .. MaxMail, wild \in BOOLEAN :
                   rt_mq_urgent(last'.thread, buffer, MsgSize, wild) =>
                       LiveBodies' = <<buffer>> \o LiveBodies
          /\ (last'.op \in {"rt_mq_recv", "rt_mq_recv_return"} /\ last'.code = RT_EOK) =>
               /\ LiveBodies # <<>>
               /\ last'.recved = Head(LiveBodies)
               /\ LiveBodies' = Tail(LiveBodies)
          /\ HeadTailConsistent' ]_vars

\* C24: rt_mq_send and rt_mq_urgent never suspend the caller; with size >
\* msg_size they return ERROR, with an empty free list they return FULL, and in
\* both cases the live list, the free list, entry, the wait list and the
\* threads are unchanged.
C24_PutNeverBlocks ==
    [][ last'.op \in {"rt_mq_send", "rt_mq_urgent"} =>
          LET t == last'.thread
          IN  /\ thread'[t].stat = RT_THREAD_READY /\ thread'[t].pc = "run"
              /\ t \notin Range(ipc'.suspend_thread)
              /\ \A buffer \in 1 .. MaxMail, size \in {MsgSize, MsgSize + 1}, wild \in BOOLEAN :
                   (\/ rt_mq_send(t, buffer, size, wild)
                    \/ rt_mq_urgent(t, buffer, size, wild)) =>
                       /\ size > mq.msg_size =>
                            /\ last'.code = RT_ERROR
                            /\ UNCHANGED <<mq, ipc, thread, rt_thread_priority_table>>
                       /\ (size <= mq.msg_size /\ FreeList = <<>>) =>
                            /\ last'.code = RT_EFULL
                            /\ UNCHANGED <<mq, ipc, thread, rt_thread_priority_table>> ]_vars

\* a message has been refused by a queue whose max_msgs cells are all in use
C24_Witness ==
    /\ last.op \in {"rt_mq_send", "rt_mq_urgent"} /\ last.code = RT_EFULL
    /\ FreeList = <<>> /\ Len(LiveList) = mq.max_msgs

----------------------------------------------------------------------------
(* Properties of the calls that do not wait *)

\* what a call of t that found nothing and does not wait leaves behind
PollMissed(t) ==
    /\ last'.thread = t /\ last'.code = RT_ETIMEOUT
    /\ thread'[t].stat = RT_THREAD_READY /\ thread'[t].pc = "run"
    /\ t \notin Range(ipc'.suspend_thread)
    /\ UNCHANGED <<ipc, sem, mutex, event, mb, mq>>

\* C6: rt_sem_take, rt_mutex_take by a thread other than the owner,
\* rt_event_recv, rt_mb_recv and rt_mq_recv, called with timeout 0 while the
\* resource is unavailable, return TIMEOUT, leave the caller READY and out of
\* the wait list, and leave the object, its wait list and its
\* suspend_thread_count unchanged.
C6_PollReturnsTimeout ==
    [][ LET t == last'.thread
        IN  CASE last'.op = "rt_sem_take" ->
                   (sem.value <= 0 /\ rt_sem_take(t, 0)) => PollMissed(t)
              [] last'.op = "rt_mutex_take" ->
                   (mutex.owner # t /\ mutex.value <= 0 /\ rt_mutex_take(t, 0))
                       => PollMissed(t)
              [] last'.op = "rt_event_recv" ->
                   \A set \in EventSets \ {{}}, option \in EventOptions :
                       (EventStatus(option, set, event.set) # RT_EOK
                            /\ rt_event_recv(t, set, option, 0)) => PollMissed(t)
              [] last'.op = "rt_mb_recv" ->
                   (mb.entry = 0 /\ rt_mb_recv(t, 0)) => PollMissed(t)
              [] last'.op = "rt_mq_recv" ->
                   (mq.entry = 0 /\ rt_mq_recv(t, 0, FALSE)) => PollMissed(t)
              [] OTHER -> TRUE ]_vars

\* a call has returned TIMEOUT at once while another thread waits on the object
C6_Witness ==
    /\ last.op \in {"rt_sem_take", "rt_mutex_take", "rt_event_recv", "rt_mb_recv", "rt_mq_recv"}
    /\ last.code = RT_ETIMEOUT
    /\ ipc.suspend_thread # <<>>


----------------------------------------------------------------------------
(* Properties of the thread's life cycle *)

ListedTransitions ==
    { <<RT_THREAD_INIT, RT_THREAD_SUSPEND>>, <<RT_THREAD_SUSPEND, RT_THREAD_READY>>,
      <<RT_THREAD_READY, RT_THREAD_SUSPEND>>, <<RT_THREAD_READY, RT_THREAD_CLOSE>> }

\* C25: whenever a step changes the stat of a thread, the change is one of
\* INIT -> SUSPEND, SUSPEND -> READY, READY -> SUSPEND, READY -> CLOSE; in
\* particular no step changes the stat of a thread that is CLOSE
C25_ListedTransitionsOnly ==
    [][ \A t \in Thread :
          thread'[t].stat # thread[t].stat =>
              <<thread[t].stat, thread'[t].stat>> \in ListedTransitions ]_vars

InReadyTable(t) == \E p \in Priority : t \in Range(rt_thread_priority_table[p])

\* C26: between the steps, the stat of a thread is READY exactly when the thread
\* is linked in the ready table
C26_ReadyIffLinked ==
    \A t \in Thread : thread[t].stat = RT_THREAD_READY <=> InReadyTable(t)

\* C27: in every reachable state, rt_thread_suspend called on a thread that is
\* not READY, and rt_thread_resume called on a thread that is not SUSPEND,
\* return -RT_ERROR and change neither a field of any thread (stat, priority,
\* timer) nor the ready table, the wait list or the running thread
C27_RefusedCallChangesNothing ==
    \A t \in Thread :
        /\ thread[t].stat # RT_THREAD_READY =>
              /\ rt_thread_suspend_code(K0, t) = RT_ERROR
              /\ rt_thread_suspend(K0, t) = K0
        /\ thread[t].stat # RT_THREAD_SUSPEND =>
              /\ rt_thread_resume_code(K0, t) = RT_ERROR
              /\ rt_thread_resume(K0, t) = K0

\* a suspend was refused on a thread that is asleep with its timer running
C27_Witness ==
    /\ last.op = "rt_thread_suspend"
    /\ last.code = RT_ERROR
    /\ thread[last.target].stat = RT_THREAD_SUSPEND
    /\ thread[last.target].timer

\* C28: when rt_thread_sleep returns, it returns RT_EOK if the thread's timer
\* ended the sleep, and the code in the thread's error field if a
\* rt_thread_resume by another thread ended it before the timer did
C28_SleepReturnCode ==
    [][ (last'.op = "rt_thread_sleep" /\ last'.code # "blocked") =>
            /\ sleep_end[last'.thread] = "timer" => last'.code = RT_EOK
            /\ sleep_end[last'.thread] = "resume" =>
                    last'.code = thread[last'.thread].error ]_vars

\* t is READY, linked in the slot of its current priority and in no other
\* slot, and its timer does not run
ReadyAt(K, t, prio) ==
    /\ K.th[t].stat = RT_THREAD_READY
    /\ K.th[t].current_priority = prio
    /\ \A p \in Priority : t \in Range(K.rq[p]) <=> p = prio
    /\ ~K.th[t].timer

\* C30: in every reachable state, rt_thread_suspend of a READY thread followed
\* by rt_thread_resume of the same thread both return RT_EOK and leave the
\* thread READY, linked in the ready table at the priority it had before the
\* suspend, with its timer stopped; and whatever happened since the suspend,
\* the state after a rt_thread_resume that returned RT_EOK has the thread READY
\* in the slot of its current priority with its timer stopped
C30_SuspendResumeRoundTrip ==
    /\ \A t \in Thread :
          thread[t].stat = RT_THREAD_READY =>
              LET K1 == rt_thread_suspend(K0, t)
              IN  /\ rt_thread_suspend_code(K0, t) = RT_EOK
                  /\ K1.th[t].stat = RT_THREAD_SUSPEND
                  /\ rt_thread_resume_code(K1, t) = RT_EOK
                  /\ ReadyAt(rt_thread_resume(K1, t), t, thread[t].current_priority)
    /\ (last.op = "rt_thread_resume" /\ last.code = RT_EOK) =>
          ReadyAt(K0, last.target, thread[last.target].current_priority)

\* a thread has just been suspended by another thread, which can resume it
C30_Witness ==
    /\ last.op = "rt_thread_suspend" /\ last.code = RT_EOK
    /\ last.thread # last.target
    /\ thread[last.target].stat = RT_THREAD_SUSPEND
    /\ ENABLED rt_thread_resume_call(last.thread, last.target)

----------------------------------------------------------------------------
(* Properties of the timer of a waiting thread *)

BlockingCalls == {"rt_sem_take", "rt_mutex_take", "rt_event_recv", "rt_mb_recv", "rt_mq_recv"}
WakingCalls ==
    {"rt_sem_release", "rt_mutex_release", "rt_event_send", "rt_mb_send", "rt_mq_send",
     "rt_mq_urgent", "rt_ipc_object_resume_all", "teardown"}

\* the step is a take or receive of t with this timeout
Blocks(t, time) ==
    \/ rt_sem_take(t, time)
    \/ rt_mutex_take(t, time)
    \/ \E set \in EventSets, option \in EventOptions : rt_event_recv(t, set, option, time)
    \/ rt_mb_recv(t, time)
    \/ \E wild \in BOOLEAN : rt_mq_recv(t, time, wild)

----------------------------------------------------------------------------
(* Properties of the calls on the ready table *)

\* the slot of the ready table the running thread is linked in
SlotOf(t) == CHOOSE p \in Priority : t \in Range(rt_thread_priority_table[p])

\* the thread rt_schedule picks from a ready table
Picked(rq) ==
    LET ready == {p \in Priority : rq[p] # <<>>}
    IN  Head(rq[CHOOSE p \in ready : \A q \in ready : p <= q])

\* C31: in every reachable state in which the running thread is READY and
\* linked in the ready table, rt_thread_yield leaves every thread as it is (the
\* running thread READY); with another thread in the same slot it moves the
\* running thread to the tail of the slot, keeps the order of the others,
\* leaves the other slots alone and switches to the first thread of the highest
\* slot; alone in its slot it changes nothing and the running thread keeps
\* running
C31_YieldRotatesSlot ==
    (/\ rt_current_thread \in Thread
     /\ ~corrupt
     /\ thread[rt_current_thread].stat = RT_THREAD_READY
     /\ InReadyTable(rt_current_thread)) =>
        LET t == rt_current_thread
            p == SlotOf(t)
            slot == rt_thread_priority_table[p]
            K1 == rt_thread_yield(K0)
        IN  /\ K1.th = thread
            /\ K1.ipc = ipc
            /\ IF Len(slot) > 1
               THEN /\ K1.rq[p] = Append(SelectSeq(slot, LAMBDA u : u # t), t)
                    /\ \A q \in Priority \ {p} : K1.rq[q] = rt_thread_priority_table[q]
                    /\ K1.cur = Picked(K1.rq)
               ELSE K1 = K0

\* the tick has made the running thread yield to a peer of its slot
C31_Witness ==
    /\ last.op = "rt_thread_yield" /\ last.code = RT_EOK
    /\ thread[last.thread].stat = RT_THREAD_READY
    /\ rt_current_thread # last.thread
    /\ Len(rt_thread_priority_table[thread[last.thread].current_priority]) > 1
    /\ rt_thread_priority_table[thread[last.thread].current_priority]
           [Len(rt_thread_priority_table[thread[last.thread].current_priority])] = last.thread

\* C32: in every reachable state and for every thread and priority,
\* rt_thread_control(CHANGE_PRIORITY) on a READY thread leaves it READY, linked
\* once in the slot of the new priority and in no other slot; on a thread in
\* any other state it changes current_priority and nothing else: not the
\* thread's stat, timer or error, not the ready table, not the wait list.  In
\* both cases no other thread, the wait list and the running thread change
C32_ChangePriorityFrame ==
    \A t \in Thread, prio \in Priority :
        LET K1 == rt_thread_control(K0, t, prio)
        IN  /\ K1.th[t] = [thread[t] EXCEPT !.current_priority = prio]
            /\ \A u \in Thread \ {t} : K1.th[u] = thread[u]
            /\ K1.ipc = ipc
            /\ K1.cur = rt_current_thread
            /\ IF thread[t].stat = RT_THREAD_READY
               THEN /\ \A p \in Priority :
                         /\ Len(SelectSeq(K1.rq[p], LAMBDA u : u = t))
                                = (IF p = prio THEN 1 ELSE 0)
                         /\ SelectSeq(K1.rq[p], LAMBDA u : u # t)
                                = SelectSeq(rt_thread_priority_table[p], LAMBDA u : u # t)
               ELSE K1.rq = rt_thread_priority_table

\* the priority of a READY thread has just been changed, and the thread is
\* linked in the slot of the new priority
C32_Witness ==
    /\ last.op = "rt_thread_control"
    /\ thread[last.target].stat = RT_THREAD_READY
    /\ thread[last.target].current_priority # thread[last.target].init_priority
    /\ last.target \in Range(rt_thread_priority_table[thread[last.target].current_priority])
    /\ \E u \in Thread : thread[u].stat = RT_THREAD_SUSPEND
                          /\ thread[u].current_priority # thread[u].init_priority

----------------------------------------------------------------------------
(* Properties of the interrupt mask *)

\* C33: whenever a call is about to request a reschedule, it has restored every
\* level it saved (it is in no interrupt-disabled section of its own) and the
\* mask is the one it was entered with
C33_ScheduleOutsideSection ==
    (irq.op # RT_NULL /\ NextToken = "rt_schedule") =>
        /\ irq.saved = <<>>
        /\ irq.enabled = irq.entry

\* rt_mutex_release has just requested the reschedule, after a section in
\* which it restored the owner's priority and resumed a waiter
C33_Witness ==
    /\ irq.op = "rt_mutex_release"
    /\ irq.at > 0 /\ irq.flow[irq.at] = "rt_schedule"
    /\ irq.at = 7
    /\ irq.entry /\ irq.enabled

----------------------------------------------------------------------------
(* Properties of an object after its waiters have left *)

\* a rt_mutex_take by t would return RT_EOK at once: t passes the owner test or
\* finds value positive
TakesAtOnce(t) == mutex.owner = t \/ mutex.value > 0

\* C34: after the owner's release that brings hold to 0 on a mutex with an empty
\* wait list, value is 1 and a rt_mutex_take by any thread returns RT_EOK
\* without blocking, also when an earlier waiter had given up with TIMEOUT.
C34_AvailableAfterFullRelease ==
    (/\ last.op = "rt_mutex_release" /\ last.code = "rescheduled"
     /\ mutex.hold = 0
     /\ ipc.suspend_thread = <<>>
     /\ \A t \in Thread : ~InCall(t, "rt_mutex_take")) =>
        /\ mutex.value = 1
        /\ \A t \in Thread : TakesAtOnce(t)

\* C35: a rt_sem_release on a semaphore whose wait list is empty leaves
\* value >= 1, whatever happened to the semaphore before, blocking takes that
\* ended with TIMEOUT included, so that a rt_sem_trytake that follows at once
\* finds value positive and returns RT_EOK.
C35_NoReleaseLost ==
    [][ (last'.op = "rt_sem_release" /\ ipc.suspend_thread = <<>>) =>
            sem'.value >= 1 ]_vars

\* C36: suspend_thread_count is never decremented while it is 0, so it is never
\* negative, over all interleavings of blocking waits, timer expiries, releases
\* and detach / delete: a waiter woken by the teardown or by a timeout is
\* counted out exactly once.
C36_CountNeverBelowZero == ipc.suspend_thread_count >= 0

\* C37: after rt_sem_delete, rt_mutex_delete, rt_event_delete, rt_mb_delete or
\* rt_mq_delete has released the object, no thread reads or writes a field of
\* it: a waiter woken by the teardown returns its error without touching the
\* object.
C37_NoAccessAfterDelete == ~freed_access

----------------------------------------------------------------------------
(* Properties of the values receivers get *)

\* C38: the values successful rt_mb_recv calls return are, in order, the values
\* successful rt_mb_send calls accepted: every receive that returns RT_EOK
\* returns the oldest accepted mail that no receive has returned yet, also when
\* the receiver was woken by a send and runs after another thread's receive.
C38_MailDeliveredOnceInOrder ==
    [][ (last'.op \in {"rt_mb_recv", "rt_mb_recv_return"} /\ last'.code = RT_EOK) =>
            /\ undelivered # <<>>
            /\ last'.recved = Head(undelivered) ]_vars

\* C39: whenever rt_mq_recv executes its dequeue, the queue is not empty: entry
\* is positive and msg_queue_head is not null, also when the receiver was
\* woken by rt_mq_send or rt_mq_urgent and runs after another receiver has
\* taken the message.
C39_DequeueFromNonEmpty ==
    [][ (last'.op \in {"rt_mq_recv", "rt_mq_recv_return"} /\ last'.code = RT_EOK) =>
            /\ mq.entry > 0
            /\ mq.msg_queue_head # 0 ]_vars

\* C40: when rt_event_recv returns RT_EOK after having blocked, the value it
\* stores in recved satisfies what the thread waited for (AND: every requested
\* bit, OR: at least one of them), also for a wait with CLEAR and whatever
\* sends and receives ran before the woken thread did.
C40_RecvedSatisfiesWait ==
    [][ (last'.op = "rt_event_recv_return" /\ last'.code = RT_EOK) =>
            EventStatus(thread[last'.thread].event_info,
                        thread[last'.thread].event_set,
                        last'.recved) = RT_EOK ]_vars

====
